---------------------------- MODULE Spec2Model ----------------------------
(***************************************************************************)
(* Model of the FCP multipath resource allocator of zvmsdk/database.py:    *)
(* the four tables of the FCP database (fcp, template,                     *)
(* template_sp_mapping, template_fcp_mapping), the mutators of             *)
(* FCPDbOperator, the two device selection strategies and the lock and     *)
(* transaction discipline of get_fcp_conn.                                 *)
(*                                                                         *)
(* Strings stand for the TEXT columns.  Columns declared COLLATE NOCASE    *)
(* are compared through Upper, as SQLite does.  The columns chpid and      *)
(* owner of table fcp are written by the synchronization statements but    *)
(* read by no statement modelled here; they are not carried.               *)
(***************************************************************************)
EXTENDS Integers, Sequences, FiniteSets, TLC

VARIABLES
    fcp,                    \* table fcp: stored fcp_id -> row
    template,               \* table template: id -> row
    template_fcp_mapping,   \* table template_fcp_mapping: set of rows
    template_sp_mapping,    \* table template_sp_mapping: sp_name -> tmpl_id
    ret,                    \* outcome of the last FCPDbOperator mutator call
    sel,                    \* outcome of the last device selection call
    lock_owner,             \* thread holding _DBLOCK_FCP, or NoThread
    lock_count,             \* recursion level of _DBLOCK_FCP
    in_transaction,         \* _FCP_CONN.in_transaction
    skip_commit,            \* per thread: skip_commit of each get_fcp_conn
                            \* block it is in, the innermost last
    pc,                     \* per thread: position in the allocation sequence
    picked,                 \* per thread: devices returned by its selection
    handed,                 \* per thread: devices returned to and reserved by it
    request,                \* the Template Manager call received, not yet run
    txn,                    \* per thread: the Template Manager call it runs
                            \* statement by statement
    saved,                  \* the tables as of the BEGIN of the transaction
                            \* open on _FCP_CONN: what ROLLBACK restores
    trip                    \* per thread: the attach and detach calls of its
                            \* guest on the device it holds; n connections
                            \* to make, increases and decreases made

vars == <<fcp, template, template_fcp_mapping, template_sp_mapping, ret, sel,
          lock_owner, lock_count, in_transaction, skip_commit, pc, picked,
          handed, request, txn, saved, trip>>

tables == <<fcp, template, template_fcp_mapping, template_sp_mapping>>

-----------------------------------------------------------------------------
(* Bounds                                                                  *)

\* connection counters are driven up to this value
MaxConn == 2
\* 'max' of a PCHID in a capacity snapshot ranges over 0..MaxCap
MaxCap == 3
\* 'allocated' of a PCHID in a capacity snapshot ranges over 0..MaxAllocated
MaxAllocated == 1

-----------------------------------------------------------------------------
(* Text values and NOCASE comparison                                       *)

\* FCP device ids as they are stored by synchronization, in fcp_id order
FcpIdSeq == <<"1a00", "1a01", "1b00", "1b01">>
FcpIds == {FcpIdSeq[i] : i \in 1..Len(FcpIdSeq)}

Upper(s) ==
    CASE s = "1a00" -> "1A00"
      [] s = "1a01" -> "1A01"
      [] s = "1b00" -> "1B00"
      [] s = "1b01" -> "1B01"
      [] s = "aaaa" -> "AAAA"
      [] s = "bbbb" -> "BBBB"
      [] OTHER -> s

EqNoCase(a, b) == Upper(a) = Upper(b)

\* position of an fcp_id in ORDER BY fcp_id (NOCASE)
FcpOrd(id) == CHOOSE i \in 1..Len(FcpIdSeq) : EqNoCase(FcpIdSeq[i], id)

Assigners == {"USERA", "USERB"}
TmplIds == {"T1", "T2"}
SpNames == {"SP1", "SP2"}
Pchids == {"aaaa", "BBBB"}
WWPN == "c05076"
NoThread == "nobody"
Threads == {"th1", "th2"}

\* the default row of table fcp for a device reported by z/VM
FcpRow(info) ==
    [assigner_id |-> "", connections |-> 0, reserved |-> 0,
     wwpn_npiv |-> info.wwpn_npiv, wwpn_phy |-> info.wwpn_phy,
     pchid |-> info.pchid, state |-> info.state, tmpl_id |-> ""]

\* rows of a table of fcp rows selected by WHERE fcp_id=?
RowsOf(tbl, fcp_id) == {k \in DOMAIN tbl : EqNoCase(k, fcp_id)}

NoRet == [op |-> "", fcp |-> "", exc |-> "", val |-> 0]
Ok(op, id, tbl, val) ==
    [fcp |-> tbl, ret |-> [op |-> op, fcp |-> id, exc |-> "", val |-> val]]
Raise(op, id, exc) ==
    [fcp |-> fcp, ret |-> [op |-> op, fcp |-> id, exc |-> exc, val |-> 0]]

-----------------------------------------------------------------------------
(* Device State Manager: DML for table fcp                                 *)

\* an unreserve that leaves tmpl_id as it is
unreserve_fcps_keeps_tmpl(fcp_ids) ==
    Ok("unreserve_fcps", "",
       [k \in DOMAIN fcp |->
           IF \E id \in fcp_ids : EqNoCase(k, id)
           THEN [fcp[k] EXCEPT !.reserved = 0]
           ELSE fcp[k]], 0)

\* an unreserve that skips the devices that still have connections
unreserve_fcps_idle_only(fcp_ids) ==
    Ok("unreserve_fcps", "",
       [k \in DOMAIN fcp |->
           IF (\E id \in fcp_ids : EqNoCase(k, id)) /\ fcp[k].connections = 0
           THEN [fcp[k] EXCEPT !.reserved = 0, !.tmpl_id = ""]
           ELSE fcp[k]], 0)

unreserve_fcps(fcp_ids) ==
    IF fcp_ids = {} THEN Ok("unreserve_fcps", "", fcp, 0)
    ELSE Ok("unreserve_fcps", "",
            [k \in DOMAIN fcp |->
                IF \E id \in fcp_ids : EqNoCase(k, id)
                THEN [fcp[k] EXCEPT !.reserved = 0, !.tmpl_id = ""]
                ELSE fcp[k]], 0)

reserve_fcps(fcp_ids, assigner_id, fcp_template_id) ==
    Ok("reserve_fcps", "",
       [k \in DOMAIN fcp |->
           IF \E id \in fcp_ids : EqNoCase(k, id)
           THEN [fcp[k] EXCEPT !.reserved = 1, !.assigner_id = assigner_id,
                               !.tmpl_id = fcp_template_id]
           ELSE fcp[k]], 0)

\* fcp_info_list is a function fcp_id -> facts reported by z/VM;
\* the primary key makes INSERT fail when a row of that id exists, and the
\* failed block is rolled back and re-raised by get_fcp_conn
bulk_insert_zvm_fcp_info_into_fcp_table(fcp_info_list) ==
    IF \E id \in DOMAIN fcp_info_list : RowsOf(fcp, id) # {}
    THEN Raise("bulk_insert", "", "SDKGuestOperationError")
    ELSE Ok("bulk_insert", "",
            [k \in DOMAIN fcp \cup DOMAIN fcp_info_list |->
                IF k \in DOMAIN fcp THEN fcp[k] ELSE FcpRow(fcp_info_list[k])],
            0)

bulk_delete_from_fcp_table(fcp_id_list) ==
    Ok("bulk_delete", "",
       [k \in {j \in DOMAIN fcp : ~ \E id \in fcp_id_list : EqNoCase(j, id)}
           |-> fcp[k]], 0)

\* an update that rewrites the whole row from the facts reported by z/VM
bulk_update_zvm_fcp_info_replaces_row(fcp_info_list) ==
    Ok("bulk_update_info", "",
       [k \in DOMAIN fcp |->
           IF \E id \in DOMAIN fcp_info_list : EqNoCase(k, id)
           THEN FcpRow(fcp_info_list[
                    CHOOSE id \in DOMAIN fcp_info_list : EqNoCase(k, id)])
           ELSE fcp[k]], 0)

bulk_update_zvm_fcp_info_in_fcp_table(fcp_info_list) ==
    Ok("bulk_update_info", "",
       [k \in DOMAIN fcp |->
           IF \E id \in DOMAIN fcp_info_list : EqNoCase(k, id)
           THEN LET info == fcp_info_list[
                        CHOOSE id \in DOMAIN fcp_info_list : EqNoCase(k, id)]
                IN  [fcp[k] EXCEPT !.wwpn_npiv = info.wwpn_npiv,
                                   !.wwpn_phy = info.wwpn_phy,
                                   !.pchid = info.pchid,
                                   !.state = info.state]
           ELSE fcp[k]], 0)

bulk_update_state_in_fcp_table(fcp_id_list, new_state) ==
    Ok("bulk_update_state", "",
       [k \in DOMAIN fcp |->
           IF \E id \in fcp_id_list : EqNoCase(k, id)
           THEN [fcp[k] EXCEPT !.state = new_state]
           ELSE fcp[k]], 0)

\* a reset that leaves the connections counter as it is
reset_fcps_keeps_connections(userid) ==
    Ok("reset_fcps_of_assigner", "",
       [k \in DOMAIN fcp |->
           IF fcp[k].assigner_id = userid
           THEN [fcp[k] EXCEPT !.assigner_id = "", !.reserved = 0,
                               !.tmpl_id = ""]
           ELSE fcp[k]], 0)

reset_fcps_of_assigner(userid) ==
    Ok("reset_fcps_of_assigner", "",
       [k \in DOMAIN fcp |->
           IF fcp[k].assigner_id = userid
           THEN [fcp[k] EXCEPT !.assigner_id = "", !.reserved = 0,
                               !.connections = 0, !.tmpl_id = ""]
           ELSE fcp[k]], 0)

update_usage_of_fcp(id, assigner_id, reserved, connections, fcp_template_id) ==
    Ok("update_usage_of_fcp", id,
       [k \in DOMAIN fcp |->
           IF EqNoCase(k, id)
           THEN [fcp[k] EXCEPT !.assigner_id = assigner_id,
                               !.reserved = reserved,
                               !.connections = connections,
                               !.tmpl_id = fcp_template_id]
           ELSE fcp[k]], 0)

\* an increase that does not look at the assigner
increase_connections_any_assigner(id, assigner_id) ==
    LET rows == RowsOf(fcp, id)
    IN  IF rows = {}
        THEN Raise("increase_connections_by_assigner", id,
                   "SDKObjectNotExistError")
        ELSE LET k == CHOOSE r \in rows : TRUE
                 connections == fcp[k].connections + 1
             IN  Ok("increase_connections_by_assigner", id,
                    [fcp EXCEPT ![k].connections = connections],
                    connections)

increase_connections_by_assigner(id, assigner_id) ==
    LET rows == {k \in RowsOf(fcp, id) : fcp[k].assigner_id = assigner_id}
    IN  IF rows = {}
        THEN Raise("increase_connections_by_assigner", id,
                   "SDKObjectNotExistError")
        ELSE LET k == CHOOSE r \in rows : TRUE
                 connections == fcp[k].connections + 1
             IN  Ok("increase_connections_by_assigner", id,
                    [fcp EXCEPT ![k].connections = connections],
                    connections)

\* a decrement that runs although the counter is already 0
decrease_at_zero_unguarded(id, k) ==
    Ok("decrease_connections", id,
       [fcp EXCEPT ![k].connections = fcp[k].connections - 1],
       fcp[k].connections - 1)

\* a decrement at 0 that writes 0 back and returns it
decrease_at_zero_clamps(id, k) ==
    Ok("decrease_connections", id, [fcp EXCEPT ![k].connections = 0], 0)

\* the branch taken for a device whose counter is already 0
decrease_at_zero(id, k) ==
    Raise("decrease_connections", id, "SDKObjectNotExistError")

clamp(connections) == IF connections < 0 THEN 0 ELSE connections

decrease_connections(id) ==
    LET rows == RowsOf(fcp, id)
    IN  IF rows = {}
        THEN Raise("decrease_connections", id, "SDKObjectNotExistError")
        ELSE LET k == CHOOSE r \in rows : TRUE
             IN  IF fcp[k].connections = 0
                 THEN decrease_at_zero(id, k)
                 ELSE LET connections == clamp(fcp[k].connections - 1)
                      IN  Ok("decrease_connections", id,
                             [fcp EXCEPT ![k].connections = connections],
                             connections)

-----------------------------------------------------------------------------
(* Queries over the template tables                                        *)

\* rows of template_fcp_mapping WHERE tmpl_id=?
MappingOf(fcp_template_id) ==
    {m \in template_fcp_mapping : m.tmpl_id = fcp_template_id}

\* template_fcp_mapping AS tf INNER JOIN fcp ON tf.fcp_id=fcp.fcp_id
\* WHERE tf.tmpl_id=?: the mapping row with the fcp row it joins
JoinOf(fcp_template_id) ==
    {[tf |-> x[1], fcp_id |-> x[2], row |-> fcp[x[2]]] :
        x \in {y \in MappingOf(fcp_template_id) \X DOMAIN fcp :
                  EqNoCase(y[1].fcp_id, y[2])}}

\* the filter that leaves out the two WWPN conditions
IsFree_no_wwpn(row) ==
    /\ row.connections = 0
    /\ row.reserved = 0
    /\ row.state = "free"

\* the filter that leaves out the reserved condition
IsFree_no_reserved(row) ==
    /\ row.connections = 0
    /\ row.state = "free"
    /\ row.wwpn_npiv # ""
    /\ row.wwpn_phy # ""

\* connections=0 AND reserved=0 AND state='free'
\* AND wwpn_npiv IS NOT '' AND wwpn_phy IS NOT ''
IsFree(row) ==
    /\ row.connections = 0
    /\ row.reserved = 0
    /\ row.state = "free"
    /\ row.wwpn_npiv # ""
    /\ row.wwpn_phy # ""

FreeJoinOf(fcp_template_id) ==
    {j \in JoinOf(fcp_template_id) : IsFree(j.row)}

get_path_count(fcp_template_id) ==
    Cardinality({m.path : m \in MappingOf(fcp_template_id)})

fcp_template_exist_in_db(fcp_template_id) ==
    fcp_template_id \in DOMAIN template

\* the stored value returned as it is, -1 included
get_min_fcp_paths_count_stored(fcp_template_id) ==
    template[fcp_template_id].min_fcp_paths_count

\* defined for an existing template: -1 stands for the path count
get_min_fcp_paths_count(fcp_template_id) ==
    IF template[fcp_template_id].min_fcp_paths_count = -1
    THEN get_path_count(fcp_template_id)
    ELSE template[fcp_template_id].min_fcp_paths_count

\* path -> set of upper-cased PCHIDs holding free devices of that path
get_free_pchids_by_fcp_template(fcp_template_id) ==
    LET free == FreeJoinOf(fcp_template_id)
    IN  [p \in {j.tf.path : j \in free} |->
            {Upper(j.row.pchid) : j \in {f \in free : f.tf.path = p}}]

\* free_count_in_pchid_info: upper-cased PCHID -> max - allocated
FreeCountInPchidInfo(pchid_info) ==
    [p \in {Upper(q) : q \in DOMAIN pchid_info} |->
        LET q == CHOOSE x \in DOMAIN pchid_info : Upper(x) = p
        IN  pchid_info[q].max - pchid_info[q].allocated]

-----------------------------------------------------------------------------
(* Allocation Engine, strategy B: get_fcp_devices                          *)

\* an item of a returned fcp_list
Item(j) ==
    [fcp_id |-> Upper(j.fcp_id), wwpn_npiv |-> j.row.wwpn_npiv,
     wwpn_phy |-> j.row.wwpn_phy, path |-> j.tf.path,
     pchid |-> Upper(j.row.pchid)]

Range(f) == {f[x] : x \in DOMAIN f}

\* pchids_per_path_combinations for one path count: every choice of
\* path_cnt free paths with one of its free PCHIDs for each
PchidsPerPathCombinations(free_pchids_per_path, path_cnt) ==
    UNION {{comb \in [ps -> UNION Range(free_pchids_per_path)] :
               \A p \in ps : comb[p] \in free_pchids_per_path[p]} :
           ps \in {q \in SUBSET DOMAIN free_pchids_per_path :
                      Cardinality(q) = path_cnt}}

\* comb_fcp_count_per_pchid[pchid]
CombCount(comb, pchid) ==
    Cardinality({p \in DOMAIN comb : comb[p] = pchid})

\* a weight free/count is kept as the pair <<free, count>>, count > 0
WLess(v, w) == v[1] * w[2] < w[1] * v[2]
WEq(v, w) == v[1] * w[2] = w[1] * v[2]
WOne == <<1, 1>>

\* weights of a combination: PCHID -> free/count
Weights(comb, free_count) ==
    [p \in Range(comb) |-> <<free_count[p], CombCount(comb, p)>>]

\* the maximum taken where the code takes the minimum
MaxOf(ws) == CHOOSE w \in ws : \A v \in ws : ~ WLess(w, v)

\* min(weights.values()); an empty combination has no minimum, min() raises
MinOf(ws) == CHOOSE w \in ws : \A v \in ws : ~ WLess(v, w)

\* comb['weight'] = min(weights.values())
Weight(comb, free_count) == MinOf(Range(Weights(comb, free_count)))

\* a record of the PCHIDs with a negative weight only
PchidsWithoutEnoughFreeCap_negative(combs, free_count) ==
    {<<p, free_count[p]>> :
        p \in {q \in UNION {Range(c) : c \in combs} :
                 \E c \in combs :
                    q \in Range(c) /\ WLess(Weights(c, free_count)[q], <<0, 1>>)}}

\* _calculate_weight: the PCHIDs recorded with a weight below 1
PchidsWithoutEnoughFreeCap(combs, free_count) ==
    {<<p, free_count[p]>> :
        p \in {q \in UNION {Range(c) : c \in combs} :
                 \E c \in combs :
                    q \in Range(c) /\ WLess(Weights(c, free_count)[q], WOne)}}

\* a removal that only discards negative weights
RemoveInvalidWeight_negative(combs, free_count) ==
    {c \in combs : ~ WLess(Weight(c, free_count), <<0, 1>>)}

\* _remove_invalid_weight
RemoveInvalidWeight(combs, free_count) ==
    {c \in combs : ~ WLess(Weight(c, free_count), WOne)}

\* a selection that keeps every combination, whatever its weight
SelectMaxWeight_keep_all(combs, free_count) == combs

\* _select_max_weight
SelectMaxWeight(combs, free_count) ==
    {c \in combs : \A d \in combs :
        ~ WLess(Weight(c, free_count), Weight(d, free_count))}

\* _select_most_distributed_pchids
SelectMostDistributedPchids(combs) ==
    {c \in combs : \A d \in combs :
        Cardinality(Range(c)) >= Cardinality(Range(d))}

\* a choice that takes, for each path of the combination, any free device
\* of the chosen PCHID, whatever its path
GetOneRandomFcpCombinations_any_path(fcp_template_id, final_pchid_per_path) ==
    LET fcps == {j \in FreeJoinOf(fcp_template_id) :
                    \E p \in DOMAIN final_pchid_per_path :
                        EqNoCase(j.row.pchid, final_pchid_per_path[p])}
        tmp_dict == [path \in DOMAIN final_pchid_per_path |->
                        {Item(j) : j \in {f \in fcps :
                            EqNoCase(f.row.pchid, final_pchid_per_path[path])}}]
    IN  {Range(pick) : pick \in
            {f \in [DOMAIN tmp_dict -> UNION Range(tmp_dict)] :
                \A path \in DOMAIN tmp_dict : f[path] \in tmp_dict[path]}}

\* _get_one_random_fcp_combinations: the fcp_lists random.choice can yield,
\* one free device of the chosen PCHID for every path of the combination
GetOneRandomFcpCombinations(fcp_template_id, final_pchid_per_path) ==
    LET fcps == {j \in FreeJoinOf(fcp_template_id) :
                    /\ j.tf.path \in DOMAIN final_pchid_per_path
                    /\ EqNoCase(j.row.pchid, final_pchid_per_path[j.tf.path])}
        tmp_dict == [path \in DOMAIN final_pchid_per_path |->
                        {Item(j) : j \in {f \in fcps : f.tf.path = path}}]
    IN  {Range(pick) : pick \in
            {f \in [DOMAIN tmp_dict -> UNION Range(tmp_dict)] :
                \A path \in DOMAIN tmp_dict : f[path] \in tmp_dict[path]}}

SelOut(op, tmpl, info, fcp_list, reason, short, exc) ==
    [op |-> op, tmpl |-> tmpl, info |-> info, fcp_list |-> fcp_list,
     reason |-> reason, short |-> short, exc |-> exc]

\* the loop over path_count_choices from path_cnt down to min_path_count:
\* the set of outcomes <<fcp_list, pchids_without_enough_free_cap, exc>>
RECURSIVE TryPathCounts(_, _, _, _, _)
TryPathCounts(fcp_template_id, free_pchids_per_path, free_count, path_cnt, min_path_count) ==
    LET combs == PchidsPerPathCombinations(free_pchids_per_path, path_cnt)
        short == PchidsWithoutEnoughFreeCap(combs, free_count)
        valid == RemoveInvalidWeight(combs, free_count)
        final == SelectMostDistributedPchids(
                     SelectMaxWeight(valid, free_count))
    IN  IF \E c \in combs : Range(c) = {} \/ ~ (Range(c) \subseteq DOMAIN free_count)
        THEN {<<{}, {}, "SDKGuestOperationError">>}
        ELSE IF valid # {}
        THEN {<<l, short, "">> :
                l \in UNION {GetOneRandomFcpCombinations(fcp_template_id, c) :
                                c \in final}}
        ELSE IF path_cnt > min_path_count
        THEN TryPathCounts(fcp_template_id, free_pchids_per_path, free_count,
                           path_cnt - 1, min_path_count)
        ELSE {<<{}, short, "">>}

\* a selection that tries the minimum path count only
get_fcp_devices_fewest_paths(fcp_template_id, pchid_info) ==
    LET free_pchids_per_path ==
            get_free_pchids_by_fcp_template(fcp_template_id)
        free_path_count == Cardinality(DOMAIN free_pchids_per_path)
        Out(l, reason, short, exc) ==
            SelOut("get_fcp_devices", fcp_template_id, pchid_info,
                   l, reason, short, exc)
    IN  IF DOMAIN free_pchids_per_path = {}
        THEN {Out({}, "no free FCP device", {}, "")}
        ELSE IF ~ fcp_template_exist_in_db(fcp_template_id)
        THEN {Out({}, "", {}, "SDKObjectNotExistError")}
        ELSE IF free_path_count < get_min_fcp_paths_count(fcp_template_id)
        THEN {Out({}, "free path count less than minimum", {}, "")}
        ELSE {Out(o[1],
                  IF o[3] = "" /\ o[1] = {}
                  THEN "not enough free capacity" ELSE "",
                  o[2], o[3]) :
                o \in TryPathCounts(fcp_template_id, free_pchids_per_path,
                                    FreeCountInPchidInfo(pchid_info),
                                    get_min_fcp_paths_count(fcp_template_id),
                                    get_min_fcp_paths_count(fcp_template_id))}

\* get_fcp_devices: the set of outcomes of one call
get_fcp_devices(fcp_template_id, pchid_info) ==
    LET free_pchids_per_path ==
            get_free_pchids_by_fcp_template(fcp_template_id)
        free_path_count == Cardinality(DOMAIN free_pchids_per_path)
        Out(l, reason, short, exc) ==
            SelOut("get_fcp_devices", fcp_template_id, pchid_info,
                   l, reason, short, exc)
    IN  IF DOMAIN free_pchids_per_path = {}
        THEN {Out({}, "no free FCP device", {}, "")}
        ELSE IF ~ fcp_template_exist_in_db(fcp_template_id)
        THEN {Out({}, "", {}, "SDKObjectNotExistError")}
        ELSE IF free_path_count < get_min_fcp_paths_count(fcp_template_id)
        THEN {Out({}, "free path count less than minimum", {}, "")}
        ELSE {Out(o[1],
                  IF o[3] = "" /\ o[1] = {}
                  THEN "not enough free capacity" ELSE "",
                  o[2], o[3]) :
                o \in TryPathCounts(fcp_template_id, free_pchids_per_path,
                                    FreeCountInPchidInfo(pchid_info),
                                    free_path_count,
                                    get_min_fcp_paths_count(fcp_template_id))}

-----------------------------------------------------------------------------
(* Allocation Engine, strategy A: get_fcp_devices_with_same_index          *)

\* the elements of a finite set of integers in ascending order
SortedSeq(S) ==
    [i \in 1..Cardinality(S) |->
        CHOOSE x \in S : Cardinality({y \in S : y < x}) = i - 1]

\* ORDER BY tf.path, tf.fcp_id
OrderKey(j) == j.tf.path * (Len(FcpIdSeq) + 1) + FcpOrd(j.tf.fcp_id)

\* fcps: the rows of JoinOf in ORDER BY tf.path, tf.fcp_id
FcpsOf(fcp_template_id) ==
    LET js == JoinOf(fcp_template_id)
        keys == SortedSeq({OrderKey(j) : j \in js})
    IN  [i \in 1..Len(keys) |-> CHOOSE j \in js : OrderKey(j) = keys[i]]

\* count_per_path: COUNT(path) ... GROUP BY path ORDER BY path ASC
CountPerPath(fcp_template_id) ==
    LET paths == SortedSeq({m.path : m \in MappingOf(fcp_template_id)})
    IN  [i \in 1..Len(paths) |->
            Cardinality({m \in MappingOf(fcp_template_id) :
                            m.path = paths[i]})]

\* len(free_count_per_path)
FreePathCount(fcp_template_id) ==
    Cardinality({j.tf.path : j \in FreeJoinOf(fcp_template_id)})

MinCount(count_per_path) ==
    CHOOSE c \in Range(count_per_path) : \A d \in Range(count_per_path) : c <= d

\* the test strategy A applies to a row of fcps in Python
SameIndexFree(row) ==
    /\ row.connections = 0
    /\ row.reserved = 0
    /\ row.state = "free"

\* s after i additions: count_per_path[0] + ... + count_per_path[i-1]
RECURSIVE Offset(_, _)
Offset(count_per_path, i) ==
    IF i = 0 THEN 0 ELSE Offset(count_per_path, i - 1) + count_per_path[i]

\* the inner loop for one idx from path number i on (i = 1 is the second
\* path): the members appended, unless the idx is popped or fcps[s + idx]
\* is out of range
RECURSIVE PairWalk(_, _, _, _)
PairWalk(fcps, count_per_path, idx, i) ==
    IF i > Len(count_per_path) - 1 THEN [status |-> "kept", members |-> <<>>]
    ELSE LET s == Offset(count_per_path, i)
         IN  IF s + idx + 1 > Len(fcps)
             THEN [status |-> "IndexError", members |-> <<>>]
             ELSE IF idx < count_per_path[i + 1]
                     /\ SameIndexFree(fcps[s + idx + 1].row)
             THEN LET rest == PairWalk(fcps, count_per_path, idx, i + 1)
                  IN  [status |-> rest.status,
                       members |-> <<fcps[s + idx + 1]>> \o rest.members]
             ELSE [status |-> "pop", members |-> <<>>]

\* weights of a same-index combination (a sequence of join rows)
SameIndexWeights(comb, free_count) ==
    LET pchids == [i \in 1..Len(comb) |-> Upper(comb[i].row.pchid)]
    IN  [p \in Range(pchids) |->
            <<free_count[p], Cardinality({i \in 1..Len(comb) : pchids[i] = p})>>]

\* get_fcp_devices_with_same_index: the set of outcomes of one call
get_fcp_devices_with_same_index(fcp_template_id, pchid_info) ==
    LET count_per_path == CountPerPath(fcp_template_id)
        fcps == FcpsOf(fcp_template_id)
        free_count == FreeCountInPchidInfo(pchid_info)
        Out(l, reason, short, exc) ==
            SelOut("get_fcp_devices_with_same_index", fcp_template_id,
                   pchid_info, l, reason, short, exc)
        \* indexes of the first loop, 0-based
        first == 0..(MinCount(count_per_path) - 1)
        heads == {i \in first : SameIndexFree(fcps[i + 1].row)}
        walk == [idx \in heads |-> PairWalk(fcps, count_per_path, idx, 1)]
        fcp_combinations ==
            {<<fcps[idx + 1]>> \o walk[idx].members :
                idx \in {h \in heads : walk[h].status = "kept"}}
        short == {<<p, free_count[p]>> :
                    p \in {q \in DOMAIN free_count :
                        \E comb \in fcp_combinations :
                            /\ q \in DOMAIN SameIndexWeights(comb, free_count)
                            /\ WLess(SameIndexWeights(comb, free_count)[q],
                                     WOne)}}
        valid == {comb \in fcp_combinations :
                    ~ WLess(MinOf(Range(SameIndexWeights(comb, free_count))),
                            WOne)}
    IN  IF Len(count_per_path) = 0
        THEN {Out({}, "no FCP device in template", {}, "")}
        ELSE IF FreePathCount(fcp_template_id) < Len(count_per_path)
        THEN {Out({}, "path without free FCP devices", {}, "")}
        ELSE IF MinCount(count_per_path) > Len(fcps)
        THEN {Out({}, "", {}, "IndexError")}
        ELSE IF \E idx \in heads : walk[idx].status = "IndexError"
        THEN {Out({}, "", {}, "IndexError")}
        ELSE IF fcp_combinations = {}
        THEN {Out({}, "no combination matches the same index policy", {}, "")}
        ELSE IF \E comb \in fcp_combinations : \E i \in 1..Len(comb) :
                    Upper(comb[i].row.pchid) \notin DOMAIN free_count
        THEN {Out({}, "", {}, "KeyError")}
        ELSE IF valid = {}
        THEN {Out({}, "not enough free capacity", short, "")}
        ELSE {Out({Item(comb[i]) : i \in 1..Len(comb)}, "", short, "") :
                comb \in valid}

-----------------------------------------------------------------------------
(* Specification Spec: the Device State Manager on the devices DevIds      *)

EmptyTable == [k \in {} |-> 0]

DevIds == {"1a00", "1b00"}
\* callers pass device ids in upper case
ArgIds == {Upper(d) : d \in DevIds}

\* facts reported by z/VM for a device
SyncInfos ==
    {[wwpn_npiv |-> WWPN, wwpn_phy |-> WWPN, pchid |-> "aaaa", state |-> "free"],
     [wwpn_npiv |-> WWPN, wwpn_phy |-> WWPN, pchid |-> "aaaa", state |-> "active"],
     [wwpn_npiv |-> "", wwpn_phy |-> WWPN, pchid |-> "BBBB", state |-> "free"]}

InfoLists(ids) == UNION {[s -> SyncInfos] : s \in (SUBSET ids) \ {{}}}

\* an optional argument: None when it is omitted, Some(v) when v is passed
None == [given |-> FALSE]
Some(v) == [given |-> TRUE, val |-> v]

\* no Template Manager call is pending
NoCall ==
    [op |-> "", id |-> "", name |-> None, description |-> None,
     fcp_devices |-> None, host_default |-> None, default_sp_list |-> None,
     min_fcp_paths_count |-> None]

NoSel == SelOut("", "", EmptyTable, {}, "", {}, "")

Last(s) == s[Len(s)]

\* the four tables as they stand
Snapshot ==
    [fcp |-> fcp, template |-> template,
     template_fcp_mapping |-> template_fcp_mapping,
     template_sp_mapping |-> template_sp_mapping]

\* no transaction is open on _FCP_CONN
NoSaved == [open |-> FALSE]

\* per thread: the Template Manager call it runs, the exception it has
\* raised, the statements it has still to execute, the number of
\* statements it executed and the helper whose block it is in
NoTxn ==
    [call |-> [t \in Threads |-> NoCall],
     exc |-> [t \in Threads |-> ""],
     todo |-> [t \in Threads |-> <<>>],
     ran |-> [t \in Threads |-> 0],
     helper |-> [t \in Threads |-> ""]]

NoTrip == [t \in Threads |-> [n |-> 0, up |-> 0, down |-> 0]]

InitStore ==
    /\ template = EmptyTable
    /\ template_fcp_mapping = {}
    /\ template_sp_mapping = EmptyTable

InitIdle ==
    /\ ret = NoRet
    /\ sel = NoSel
    /\ lock_owner = NoThread
    /\ lock_count = 0
    /\ in_transaction = FALSE
    /\ skip_commit = [t \in Threads |-> <<>>]
    /\ pc = [t \in Threads |-> "idle"]
    /\ picked = [t \in Threads |-> {}]
    /\ handed = [t \in Threads |-> {}]
    /\ request = NoCall
    /\ txn = NoTxn
    /\ saved = NoSaved
    /\ trip = NoTrip

Init ==
    /\ fcp = EmptyTable
    /\ InitStore
    /\ InitIdle

\* a mutator of table fcp run as one get_fcp_conn block
FcpCall(r) ==
    /\ fcp' = r.fcp
    /\ ret' = r.ret
    /\ UNCHANGED <<template, template_fcp_mapping, template_sp_mapping, sel,
                   lock_owner, lock_count, in_transaction, skip_commit, pc,
                   picked, handed, request, txn, saved, trip>>

UnreserveFcps ==
    \E ids \in SUBSET ArgIds : FcpCall(unreserve_fcps(ids))

ReserveFcps ==
    \E ids \in (SUBSET ArgIds) \ {{}}, a \in Assigners :
        FcpCall(reserve_fcps(ids, a, "T1"))

BulkInsert ==
    \E l \in InfoLists(DevIds) :
        FcpCall(bulk_insert_zvm_fcp_info_into_fcp_table(l))

BulkDelete ==
    \E ids \in (SUBSET ArgIds) \ {{}} :
        FcpCall(bulk_delete_from_fcp_table(ids))

BulkUpdateInfo ==
    \E l \in InfoLists(ArgIds) :
        FcpCall(bulk_update_zvm_fcp_info_in_fcp_table(l))

BulkUpdateState ==
    \E ids \in (SUBSET ArgIds) \ {{}}, st \in {"free", "active", "notfound"} :
        FcpCall(bulk_update_state_in_fcp_table(ids, st))

ResetFcpsOfAssigner ==
    \E a \in Assigners : FcpCall(reset_fcps_of_assigner(a))

IncreaseConnections ==
    \E id \in ArgIds, a \in Assigners :
        /\ \A k \in RowsOf(fcp, id) : fcp[k].connections < MaxConn
        /\ FcpCall(increase_connections_by_assigner(id, a))

DecreaseConnections ==
    \E id \in ArgIds : FcpCall(decrease_connections(id))

Next ==
    \/ UnreserveFcps
    \/ ReserveFcps
    \/ BulkInsert
    \/ BulkDelete
    \/ BulkUpdateInfo
    \/ BulkUpdateState
    \/ ResetFcpsOfAssigner
    \/ IncreaseConnections
    \/ DecreaseConnections

Spec == Init /\ [][Next]_vars

-----------------------------------------------------------------------------
\* C3: after any sequence of reserve, unreserve, increase, decrease, reset
\* and synchronization operations every device's connections counter
\* is >= 0.
C3_ConnectionsNonNegative ==
    \A k \in DOMAIN fcp : fcp[k].connections >= 0

\* a decrement has brought a counter back to 0
C3_Witness ==
    /\ ret.op = "decrease_connections"
    /\ ret.exc = ""
    /\ \E k \in RowsOf(fcp, ret.fcp) : fcp[k].connections = 0

-----------------------------------------------------------------------------
(* Specification SpecSelect: one selection call on a store drawn from      *)
(* bounded sets of templates, device rows and capacity snapshots           *)

Row(assigner_id, connections, reserved, wwpn_npiv, wwpn_phy, pchid, state, tmpl_id) ==
    [assigner_id |-> assigner_id, connections |-> connections,
     reserved |-> reserved, wwpn_npiv |-> wwpn_npiv, wwpn_phy |-> wwpn_phy,
     pchid |-> pchid, state |-> state, tmpl_id |-> tmpl_id]

FreeOnA == Row("", 0, 0, WWPN, WWPN, "aaaa", "free", "")
FreeOnB == Row("", 0, 0, WWPN, WWPN, "BBBB", "free", "")
Reserved == Row("USERA", 0, 1, WWPN, WWPN, "aaaa", "free", "T1")
Connected == Row("USERA", 1, 0, WWPN, WWPN, "BBBB", "free", "")
Active == Row("", 0, 0, WWPN, WWPN, "aaaa", "active", "")
NoNpiv == Row("", 0, 0, "", WWPN, "aaaa", "free", "")
NoPhy == Row("", 0, 0, WWPN, "", "BBBB", "free", "")

\* the rows a device takes in the drawn stores
RowChoices(id) ==
    CASE id = "1a00" -> {FreeOnA, Reserved, NoNpiv}
      [] id = "1a01" -> {FreeOnA, FreeOnB, Active}
      [] id = "1b00" -> {FreeOnB, NoPhy, Connected}
      [] id = "1b01" -> {FreeOnB, FreeOnA}

\* devices that may have no row in table fcp
MaybeAbsent == {"1a00", "1b00", "1b01"}

FcpTables ==
    UNION {{t \in [ids -> UNION {RowChoices(id) : id \in FcpIds}] :
               \A id \in ids : t[id] \in RowChoices(id)} :
           ids \in {x \in SUBSET FcpIds : FcpIds \ x \subseteq MaybeAbsent}}

\* fcp_devices_by_path of the template: fcp_id -> path
Topologies ==
    {[d \in FcpIds |-> IF d \in {"1a00", "1a01"} THEN 0 ELSE 1],
     [d \in FcpIds |-> IF d = "1b01" THEN 1 ELSE 0],
     [d \in FcpIds |-> IF d = "1a00" THEN 0 ELSE 1],
     [d \in {"1a00", "1a01", "1b00"} |-> IF d = "1b00" THEN 1 ELSE 0],
     [d \in {"1a00", "1a01"} |-> 0],
     [d \in {"1a00", "1a01", "1b00"} |->
         IF d = "1a00" THEN 0 ELSE IF d = "1a01" THEN 1 ELSE 2]}

MappingRows(fcp_template_id, topo) ==
    {[fcp_id |-> d, tmpl_id |-> fcp_template_id, path |-> topo[d]] :
        d \in DOMAIN topo}

TmplRow(name, is_default, min_fcp_paths_count) ==
    [name |-> name, description |-> "", is_default |-> is_default,
     min_fcp_paths_count |-> min_fcp_paths_count]

\* capacity snapshots: PCHID -> {allocated, max}, keys in either case
InfoKeys == {"AAAA", "bbbb"}
PchidInfos ==
    UNION {[ks -> [allocated : 0..MaxAllocated, max : 0..MaxCap]] :
              ks \in SUBSET InfoKeys}

InitSelect ==
    /\ fcp \in FcpTables
    /\ \E topo \in Topologies, m \in {-1, 1, 2} :
          /\ template = [t \in {"T1"} |-> TmplRow("tmpl", 0, m)]
          /\ template_fcp_mapping = MappingRows("T1", topo)
    /\ template_sp_mapping = EmptyTable
    /\ InitIdle

\* a selection that reserves the devices it returns
Selection_reserving(outcomes) ==
    /\ sel' \in outcomes
    /\ fcp' = [k \in DOMAIN fcp |->
                 IF \E item \in sel'.fcp_list : EqNoCase(k, item.fcp_id)
                 THEN [fcp[k] EXCEPT !.reserved = 1]
                 ELSE fcp[k]]
    /\ UNCHANGED <<template, template_fcp_mapping, template_sp_mapping,
                   ret, lock_owner, lock_count, in_transaction, skip_commit,
                   pc, picked, handed, request, txn, saved, trip>>

\* a selection call: its statements are SELECTs, its outcome goes to the
\* caller
Selection(outcomes) ==
    /\ sel' \in outcomes
    /\ UNCHANGED <<fcp, template, template_fcp_mapping, template_sp_mapping,
                   ret, lock_owner, lock_count, in_transaction, skip_commit,
                   pc, picked, handed, request, txn, saved, trip>>

\* the one selection call of SpecSelect
SelCall(outcomes) ==
    /\ sel.op = ""
    /\ Selection(outcomes)

GetFcpDevices ==
    \E t \in TmplIds, info \in PchidInfos :
        SelCall(get_fcp_devices(t, info))

GetFcpDevicesWithSameIndex ==
    \E t \in TmplIds, info \in PchidInfos :
        SelCall(get_fcp_devices_with_same_index(t, info))

NextSelect ==
    \/ GetFcpDevices
    \/ GetFcpDevicesWithSameIndex

SpecSelect == InitSelect /\ [][NextSelect]_vars

\* the stored rows of the device an item names
ItemRows(item) == {fcp[k] : k \in RowsOf(fcp, item.fcp_id)}

\* the device an item names is mapped to the template of the call
ItemMapped(item) ==
    \E m \in MappingOf(sel.tmpl) : EqNoCase(m.fcp_id, item.fcp_id)

Available(row) ==
    /\ row.connections = 0
    /\ row.reserved = 0
    /\ row.state = "free"
    /\ row.wwpn_npiv # ""
    /\ row.wwpn_phy # ""

\* C5: every device returned by get_fcp_devices has, in the store read by
\* the call, connections=0, reserved=0, state='free', non-empty wwpn_npiv
\* and wwpn_phy, and is mapped to the requested template.
C5_StrategyBReturnsAvailable ==
    sel.op = "get_fcp_devices" =>
        \A item \in sel.fcp_list :
            /\ ItemRows(item) # {}
            /\ \A row \in ItemRows(item) : Available(row)
            /\ ItemMapped(item)

\* get_fcp_devices returned devices from a template in which some mapped
\* device is not available
C5_Witness ==
    /\ sel.op = "get_fcp_devices"
    /\ sel.fcp_list # {}
    /\ \E j \in JoinOf(sel.tmpl) : ~ Available(j.row)

\* C6 as stated: every device returned by get_fcp_devices_with_same_index
\* has, in the store read by the call, connections=0, reserved=0,
\* state='free' and non-empty wwpn_npiv and wwpn_phy.
C6_Original ==
    sel.op = "get_fcp_devices_with_same_index" =>
        \A item \in sel.fcp_list :
            /\ ItemRows(item) # {}
            /\ \A row \in ItemRows(item) : Available(row)

\* the capacity left for a PCHID by the snapshot of the call
Covered(pchid) == \E q \in DOMAIN sel.info : Upper(q) = Upper(pchid)

\* C7: a non-empty result of either strategy respects the capacity
\* snapshot: every returned device lies on a PCHID of the snapshot, and the
\* number of returned devices on that PCHID is at most its max - allocated.
C7_ResultWithinCapacity ==
    sel.fcp_list # {} =>
        \A item \in sel.fcp_list :
            /\ Covered(item.pchid)
            /\ \A q \in DOMAIN sel.info :
                  EqNoCase(item.pchid, q) =>
                      Cardinality({other \in sel.fcp_list :
                                      other.pchid = item.pchid})
                         <= sel.info[q].max - sel.info[q].allocated

\* a result that takes two devices from one PCHID
C7_Witness ==
    /\ sel.fcp_list # {}
    /\ \E i1 \in sel.fcp_list, i2 \in sel.fcp_list :
          i1 # i2 /\ i1.pchid = i2.pchid

\* every PCHID holding free devices of the template of the call has a
\* free capacity below 1 in the snapshot of the call
NoCapacityAnywhere ==
    \A j \in FreeJoinOf(sel.tmpl) :
        \E q \in DOMAIN sel.info :
            /\ EqNoCase(q, j.row.pchid)
            /\ sel.info[q].max - sel.info[q].allocated < 1

SnapshotCovers ==
    \A j \in JoinOf(sel.tmpl) : Covered(j.row.pchid)

\* C9 as stated: for an existing template and a snapshot covering its
\* PCHIDs both strategies return normally, either a non-empty list with an
\* empty reason or an empty list with a non-empty reason.
C9_Original ==
    (sel.op # "" /\ sel.tmpl \in DOMAIN template /\ SnapshotCovers) =>
        /\ sel.exc = ""
        /\ \/ sel.fcp_list # {} /\ sel.reason = ""
           \/ sel.fcp_list = {} /\ sel.reason # ""

-----------------------------------------------------------------------------
(* Claims on get_fcp_devices, checked under SpecSelect                     *)

\* C24: a non-empty result of get_fcp_devices holds exactly one device per
\* selected path: the paths of its devices are pairwise distinct, every
\* device is mapped in the template to the path it is reported with and
\* lies on the PCHID it is reported with, and the number of devices is at
\* least the minimum path count of the template.
C24_OneDevicePerPath ==
    (sel.op = "get_fcp_devices" /\ sel.fcp_list # {}) =>
        /\ \A i1 \in sel.fcp_list, i2 \in sel.fcp_list :
              i1.path = i2.path => i1 = i2
        /\ \A item \in sel.fcp_list :
              \E j \in JoinOf(sel.tmpl) :
                  /\ EqNoCase(j.fcp_id, item.fcp_id)
                  /\ j.tf.path = item.path
                  /\ Upper(j.row.pchid) = item.pchid
        /\ Cardinality(sel.fcp_list) >= get_min_fcp_paths_count(sel.tmpl)

\* get_fcp_devices returned two devices of one PCHID from a template of
\* three paths whose third path holds a free device too
C24_Witness ==
    /\ sel.op = "get_fcp_devices"
    /\ Cardinality(sel.fcp_list) = 2
    /\ get_path_count(sel.tmpl) = 3
    /\ Cardinality({j.tf.path : j \in FreeJoinOf(sel.tmpl)}) = 3
    /\ \E i1 \in sel.fcp_list, i2 \in sel.fcp_list :
          i1 # i2 /\ i1.pchid = i2.pchid

\* the paths of the template of the call that hold an available device
AvailablePaths ==
    {j.tf.path : j \in {x \in JoinOf(sel.tmpl) : Available(x.row)}}

\* the minimum path count the template of the call asks for: the stored
\* value, or the number of configured paths when -1 is stored
RequiredPaths ==
    IF template[sel.tmpl].min_fcp_paths_count = -1
    THEN Cardinality({m.path : m \in {x \in template_fcp_mapping :
                                          x.tmpl_id = sel.tmpl}})
    ELSE template[sel.tmpl].min_fcp_paths_count

\* C26: get_fcp_devices returns an empty list with a non-empty diagnostic
\* whenever fewer paths of the template hold an available device than the
\* minimum path count of the template, a stored -1 standing for the number
\* of configured paths.
C26_TooFewFreePathsGivesEmpty ==
    (/\ sel.op = "get_fcp_devices"
     /\ sel.tmpl \in DOMAIN template
     /\ Cardinality(AvailablePaths) < RequiredPaths) =>
        /\ sel.exc = ""
        /\ sel.fcp_list = {}
        /\ sel.reason # ""

\* a template storing -1 with three configured paths, two of them holding
\* an available device on PCHIDs with free capacity
C26_Witness ==
    /\ sel.op = "get_fcp_devices"
    /\ sel.tmpl \in DOMAIN template
    /\ template[sel.tmpl].min_fcp_paths_count = -1
    /\ Cardinality(AvailablePaths) = 2
    /\ RequiredPaths = 3
    /\ \A q \in DOMAIN sel.info : sel.info[q].max - sel.info[q].allocated >= 2
    /\ DOMAIN sel.info = InfoKeys
    /\ sel.reason = "free path count less than minimum"

\* the PCHIDs, in upper case, holding an available device of path p of the
\* template of the call
AvailableGroups(p) ==
    {Upper(j.row.pchid) :
        j \in {x \in JoinOf(sel.tmpl) : Available(x.row) /\ x.tf.path = p}}

\* the combinations of one group per path over n paths that hold available
\* devices
CombinationsOver(n) ==
    UNION {{c \in [ps -> UNION {AvailableGroups(p) : p \in ps}] :
               \A p \in ps : c[p] \in AvailableGroups(p)} :
           ps \in {x \in SUBSET AvailablePaths : Cardinality(x) = n}}

\* max - allocated of the snapshot of the call for a covered PCHID
FreeCapacity(pchid) ==
    LET q == CHOOSE x \in DOMAIN sel.info : Upper(x) = Upper(pchid)
    IN  sel.info[q].max - sel.info[q].allocated

\* the number of paths on which a combination uses a PCHID
UsesOf(c, pchid) == Cardinality({p \in DOMAIN c : c[p] = pchid})

\* the weight of a combination is at least 1: every PCHID it uses has a
\* free capacity of at least the number of times it is used
WeightAtLeastOne(c) ==
    \A g \in {c[p] : p \in DOMAIN c} :
        Covered(g) /\ FreeCapacity(g) >= UsesOf(c, g)

\* the snapshot of the call gives the capacity of every PCHID that holds an
\* available device of the template, so that every weight is defined
WeightsDefined ==
    \A p \in AvailablePaths : \A g \in AvailableGroups(p) : Covered(g)

\* C27: get_fcp_devices uses as many paths as possible: when it returns k
\* devices, no combination of one group per path over more than k free
\* paths has a weight of at least 1; and when some combination over at
\* least the minimum path count has a weight of at least 1, the result is
\* not empty.
C27_MostPathsUsed ==
    (sel.op = "get_fcp_devices" /\ sel.tmpl \in DOMAIN template) =>
        /\ sel.fcp_list # {} =>
              \A n \in (Cardinality(sel.fcp_list) + 1)..Cardinality(AvailablePaths) :
                  \A c \in CombinationsOver(n) : ~ WeightAtLeastOne(c)
        /\ (/\ WeightsDefined
            /\ \E n \in RequiredPaths..Cardinality(AvailablePaths) :
                  \E c \in CombinationsOver(n) : WeightAtLeastOne(c)) =>
              sel.fcp_list # {}

\* three paths hold available devices, the minimum is one path, and the
\* capacity left allows two devices but not three
C27_Witness ==
    /\ sel.op = "get_fcp_devices"
    /\ sel.tmpl \in DOMAIN template
    /\ RequiredPaths = 1
    /\ Cardinality(AvailablePaths) = 3
    /\ Cardinality(sel.fcp_list) = 2
    /\ \E c \in CombinationsOver(1) : ~ WeightAtLeastOne(c)

\* the combination the result of the call stands for: path -> PCHID
Chosen ==
    [p \in {item.path : item \in sel.fcp_list} |->
        (CHOOSE item \in sel.fcp_list : item.path = p).pchid]

\* weight(c) >= weight(d), the weight of a combination being the least of
\* FreeCapacity(g) / UsesOf(c, g) over the PCHIDs g it uses
WeightNotBelow(c, d) ==
    \A g \in {c[p] : p \in DOMAIN c} :
        \E h \in {d[p] : p \in DOMAIN d} :
            FreeCapacity(g) * UsesOf(d, h) >= FreeCapacity(h) * UsesOf(c, g)

DistinctGroups(c) == Cardinality({c[p] : p \in DOMAIN c})

\* C28: the combination chosen by get_fcp_devices has the greatest weight
\* among all combinations of the chosen path count whose weight is at
\* least 1, and among those of greatest weight it uses the greatest number
\* of distinct PCHIDs; a combination of lower weight is not preferred for
\* using more PCHIDs.
C28_MaxWeightThenMostDistributed ==
    (sel.op = "get_fcp_devices" /\ sel.fcp_list # {}) =>
        LET valid == {c \in CombinationsOver(Cardinality(sel.fcp_list)) :
                         WeightAtLeastOne(c)}
        IN  /\ Chosen \in valid
            /\ \A d \in valid : WeightNotBelow(Chosen, d)
            /\ \A d \in valid :
                  WeightNotBelow(d, Chosen) =>
                      DistinctGroups(Chosen) >= DistinctGroups(d)

\* the chosen combination uses one PCHID although a combination of the
\* same path count with a weight of at least 1 uses two
C28_Witness ==
    /\ sel.op = "get_fcp_devices"
    /\ sel.fcp_list # {}
    /\ DistinctGroups(Chosen) = 1
    /\ \E d \in CombinationsOver(Cardinality(sel.fcp_list)) :
          /\ WeightAtLeastOne(d)
          /\ DistinctGroups(d) = 2
          /\ ~ WeightNotBelow(d, Chosen)

\* enough paths of the template of the call hold an available device, the
\* snapshot gives the capacity of their PCHIDs, and no combination over
\* any path count from the minimum on has a weight of at least 1
EveryCombinationDiscarded ==
    /\ sel.tmpl \in DOMAIN template
    /\ RequiredPaths >= 1
    /\ Cardinality(AvailablePaths) >= RequiredPaths
    /\ WeightsDefined
    /\ \A n \in RequiredPaths..Cardinality(AvailablePaths) :
          \A c \in CombinationsOver(n) : ~ WeightAtLeastOne(c)

-----------------------------------------------------------------------------
(* Claims on get_fcp_devices_with_same_index, checked under SpecSelect     *)

\* the position, from 0, of a device in the list of the devices the
\* template of the call maps to a path, ordered by fcp_id
PositionInPath(fcp_id, path) ==
    Cardinality({m \in MappingOf(sel.tmpl) :
                    m.path = path /\ FcpOrd(m.fcp_id) < FcpOrd(fcp_id)})

\* the device the template of the call maps to a path at a position has a
\* row that is free, unreserved and without connections
AvailableAt(path, i) ==
    \E j \in JoinOf(sel.tmpl) :
        /\ j.tf.path = path
        /\ PositionInPath(j.tf.fcp_id, path) = i
        /\ j.row.connections = 0
        /\ j.row.reserved = 0
        /\ j.row.state = "free"

\* C29 as stated: a non-empty result of get_fcp_devices_with_same_index
\* holds exactly one device from every path of the template, all at the
\* same position i of their path's list ordered by fcp_id, and every path
\* has an available device at that position.
C29_Original ==
    (sel.op = "get_fcp_devices_with_same_index" /\ sel.fcp_list # {}) =>
        LET paths == {m.path : m \in MappingOf(sel.tmpl)}
        IN  /\ Cardinality(sel.fcp_list) = Cardinality(paths)
            /\ \A p \in paths : \E item \in sel.fcp_list : item.path = p
            /\ \A item \in sel.fcp_list :
                  \E m \in MappingOf(sel.tmpl) :
                      EqNoCase(m.fcp_id, item.fcp_id) /\ m.path = item.path
            /\ \E i \in 0..Len(FcpIdSeq) :
                  /\ \A item \in sel.fcp_list :
                        PositionInPath(item.fcp_id, item.path) = i
                  /\ \A p \in paths : AvailableAt(p, i)

-----------------------------------------------------------------------------
(* get_fcp_conn: the re-entrant lock _DBLOCK_FCP and the transaction of the *)
(* shared connection _FCP_CONN                                             *)

\* a lock that never blocks
CanAcquire_always(t) == TRUE

\* _DBLOCK_FCP.acquire() returns when the RLock is free or held by the caller
CanAcquire(t) == lock_owner \in {NoThread, t}

\* an entry that issues BEGIN whether or not a transaction is open
EnterFcpConn_always_begin(t) ==
    /\ CanAcquire(t)
    /\ lock_owner' = t
    /\ lock_count' = lock_count + 1
    /\ skip_commit' = [skip_commit EXCEPT ![t] = Append(@, FALSE)]
    /\ in_transaction' = TRUE
    /\ saved' = Snapshot

\* entering a with get_fcp_conn() block: acquire, BEGIN unless a transaction
\* is alive
EnterFcpConn(t) ==
    /\ CanAcquire(t)
    /\ lock_owner' = t
    /\ lock_count' = lock_count + 1
    /\ skip_commit' = [skip_commit EXCEPT ![t] = Append(@, in_transaction)]
    /\ in_transaction' = TRUE
    /\ saved' = IF in_transaction THEN saved ELSE Snapshot

\* _DBLOCK_FCP.release() in the finally clause
Release(t) ==
    /\ lock_count' = lock_count - 1
    /\ lock_owner' = IF lock_count = 1 THEN NoThread ELSE lock_owner
    /\ skip_commit' = [skip_commit EXCEPT ![t] = SubSeq(@, 1, Len(@) - 1)]

\* leaving the block without an exception: COMMIT unless skip_commit,
\* release
ExitFcpConn(t) ==
    /\ in_transaction' = (in_transaction /\ Last(skip_commit[t]))
    /\ saved' = IF Last(skip_commit[t]) THEN saved ELSE NoSaved
    /\ Release(t)

\* ROLLBACK: the tables are those of the BEGIN again
Restore(s) ==
    /\ fcp' = s.fcp
    /\ template' = s.template
    /\ template_fcp_mapping' = s.template_fcp_mapping
    /\ template_sp_mapping' = s.template_sp_mapping

\* a block whose handler of other exceptions issues no ROLLBACK
RollbackFcpConn_sdk_only(t, sdk) ==
    /\ IF Last(skip_commit[t]) \/ saved = NoSaved \/ ~ sdk
       THEN UNCHANGED tables
       ELSE Restore(saved)
    /\ in_transaction' = (in_transaction /\ (Last(skip_commit[t]) \/ ~ sdk))
    /\ saved' = IF Last(skip_commit[t]) \/ ~ sdk THEN saved ELSE NoSaved

\* the handlers of the block, of SDKBaseException (sdk) and of any other
\* Exception: ROLLBACK unless skip_commit
RollbackFcpConn(t, sdk) ==
    /\ IF Last(skip_commit[t]) \/ saved = NoSaved
       THEN UNCHANGED tables
       ELSE Restore(saved)
    /\ in_transaction' = (in_transaction /\ Last(skip_commit[t]))
    /\ saved' = IF Last(skip_commit[t]) THEN saved ELSE NoSaved

\* the end of the handlers: an SDKBaseException is raised again, any other
\* Exception is replaced by SDKGuestOperationError(rs=1); finally: release
RaiseFcpConn(t, sdk, err) ==
    /\ ret' = IF sdk THEN err
              ELSE [err EXCEPT !.exc = "SDKGuestOperationError", !.val = 1]
    /\ Release(t)

-----------------------------------------------------------------------------
(* Specification SpecAlloc: two threads, each allocating devices of         *)
(* template T1 for its own guest: select, then reserve_fcps, in one         *)
(* get_fcp_conn block; and releasing them with unreserve_fcps               *)

AssignerOf(t) == IF t = "th1" THEN "USERA" ELSE "USERB"

\* snapshots naming both PCHIDs, each with free capacity
AllocInfos == [InfoKeys -> [allocated : {0, MaxAllocated}, max : {MaxCap}]]

InitAlloc == InitSelect

\* with database.get_fcp_conn():
AllocEnter(t) ==
    /\ pc[t] = "idle"
    /\ EnterFcpConn(t)
    /\ pc' = [pc EXCEPT ![t] = "select"]
    /\ UNCHANGED <<tables, ret, sel, picked, handed, request, txn, trip>>

\* the selection of the configured strategy; an empty list or an error
\* ends the block without a reservation
AllocSelect(t) ==
    /\ pc[t] = "select"
    /\ \E info \in AllocInfos :
         \E out \in get_fcp_devices("T1", info)
                       \cup get_fcp_devices_with_same_index("T1", info) :
            /\ picked' = [picked EXCEPT
                             ![t] = {item.fcp_id : item \in out.fcp_list}]
            /\ pc' = [pc EXCEPT
                         ![t] = IF out.fcp_list = {} THEN "exit" ELSE "reserve"]
    /\ UNCHANGED <<tables, ret, sel, lock_owner, lock_count, in_transaction,
                   skip_commit, handed, request, txn, saved, trip>>

\* reserve_fcps on the devices the selection returned
AllocReserve(t) ==
    /\ pc[t] = "reserve"
    /\ LET r == reserve_fcps(picked[t], AssignerOf(t), "T1")
       IN  /\ fcp' = r.fcp
           /\ ret' = r.ret
    /\ handed' = [handed EXCEPT ![t] = handed[t] \cup picked[t]]
    /\ pc' = [pc EXCEPT ![t] = "exit"]
    /\ UNCHANGED <<template, template_fcp_mapping, template_sp_mapping, sel,
                   lock_owner, lock_count, in_transaction, skip_commit,
                   picked, request, txn, saved, trip>>

\* the end of the with block
AllocExit(t) ==
    /\ pc[t] = "exit"
    /\ ExitFcpConn(t)
    /\ pc' = [pc EXCEPT ![t] = "idle"]
    /\ picked' = [picked EXCEPT ![t] = {}]
    /\ UNCHANGED <<tables, ret, sel, handed, request, txn, trip>>

\* the thread gives its devices back: unreserve_fcps as a block of its own
AllocRelease(t) ==
    /\ pc[t] = "idle"
    /\ handed[t] # {}
    /\ CanAcquire(t)
    /\ LET r == unreserve_fcps(handed[t])
       IN  /\ fcp' = r.fcp
           /\ ret' = r.ret
    /\ handed' = [handed EXCEPT ![t] = {}]
    /\ UNCHANGED <<template, template_fcp_mapping, template_sp_mapping, sel,
                   lock_owner, lock_count, in_transaction, skip_commit, pc,
                   picked, request, txn, saved, trip>>

NextAlloc ==
    \E t \in Threads :
        \/ AllocEnter(t)
        \/ AllocSelect(t)
        \/ AllocReserve(t)
        \/ AllocExit(t)
        \/ AllocRelease(t)

SpecAlloc == InitAlloc /\ [][NextAlloc]_vars

\* C1: for any interleaving of two callers that select on template T1 and
\* then reserve the returned devices for their own assigner, no device is
\* handed to both, and every device a caller holds carries, reserved, the
\* assigner of that caller.
C1_NoDoubleAllocation ==
    /\ handed["th1"] \cap handed["th2"] = {}
    /\ \A t \in Threads : \A id \in handed[t] :
          \A k \in RowsOf(fcp, id) :
              fcp[k].reserved = 1 /\ fcp[k].assigner_id = AssignerOf(t)

\* both callers hold devices while one of them is inside its block
C1_Witness ==
    /\ handed["th1"] # {}
    /\ handed["th2"] # {}
    /\ \E t \in Threads : pc[t] = "exit"

-----------------------------------------------------------------------------
(* Specification SpecReserve: the allocation sequences of SpecAlloc next to *)
(* reserve_fcps called on its own, on any devices                           *)

\* the stores of InitSelect in which every device has a row and one free
\* path is enough for the template
InitReserve ==
    /\ InitSelect
    /\ DOMAIN fcp = FcpIds
    /\ template["T1"].min_fcp_paths_count = 1

\* reserve_fcps as a block of its own, for the guest of the thread
DirectReserve(t) ==
    /\ pc[t] = "idle"
    /\ CanAcquire(t)
    /\ \E ids \in (SUBSET ArgIds) \ {{}} :
          LET r == reserve_fcps(ids, AssignerOf(t), "T1")
          IN  /\ fcp' = r.fcp
              /\ ret' = r.ret
    /\ UNCHANGED <<template, template_fcp_mapping, template_sp_mapping, sel,
                   lock_owner, lock_count, in_transaction, skip_commit, pc,
                   picked, handed, request, txn, saved, trip>>

NextReserve ==
    \E t \in Threads :
        \/ AllocEnter(t)
        \/ AllocSelect(t)
        \/ AllocReserve(t)
        \/ AllocExit(t)
        \/ AllocRelease(t)
        \/ DirectReserve(t)

SpecReserve == InitReserve /\ [][NextReserve]_vars

\* the device is reserved or connected for an assigner other than a
HeldByOther(row, a) ==
    /\ row.reserved = 1 \/ row.connections > 0
    /\ row.assigner_id # a

\* C2 as stated: reserve_fcps never changes the assigner_id or tmpl_id of a
\* device that is reserved or connected for a different assigner.
C2_Original ==
    [][\A t \in Threads :
         (AllocReserve(t) \/ DirectReserve(t)) =>
             \A k \in DOMAIN fcp :
                 HeldByOther(fcp[k], AssignerOf(t)) =>
                     /\ fcp'[k].assigner_id = fcp[k].assigner_id
                     /\ fcp'[k].tmpl_id = fcp[k].tmpl_id]_vars

\* C2 amended: reserve_fcps applied, inside the get_fcp_conn block of the
\* selection, to the devices the selection returned changes only devices
\* that had reserved=0 and connections=0; a device row carries one
\* assigner_id, which is the assigner of the last reservation.
C2_AllocationReservesFree ==
    [][\A t \in Threads :
         AllocReserve(t) =>
             \A k \in DOMAIN fcp :
                 fcp'[k] # fcp[k] =>
                     /\ fcp[k].reserved = 0
                     /\ fcp[k].connections = 0
                     /\ fcp'[k].reserved = 1
                     /\ fcp'[k].assigner_id = AssignerOf(t)]_vars

\* an allocation has reserved devices while a device is held for the
\* other guest
C2_Witness ==
    /\ \E t \in Threads :
          /\ pc[t] = "exit"
          /\ picked[t] # {}
          /\ \E k \in DOMAIN fcp : HeldByOther(fcp[k], AssignerOf(t))

-----------------------------------------------------------------------------
(* Template Manager: create_fcp_template and delete_fcp_template            *)

\* the tables and the outcome of a Template Manager call
TmplOk(op, id, t, m, sp) ==
    [template |-> t, template_fcp_mapping |-> m, template_sp_mapping |-> sp,
     ret |-> [op |-> op, fcp |-> id, exc |-> "", val |-> 0]]
\* the block is rolled back: the tables are those before the call
TmplRaise(op, id, exc) ==
    [template |-> template, template_fcp_mapping |-> template_fcp_mapping,
     template_sp_mapping |-> template_sp_mapping,
     ret |-> [op |-> op, fcp |-> id, exc |-> exc, val |-> 0]]

sp_name_exist_in_db(sp_name) == sp_name \in DOMAIN template_sp_mapping

\* the (fcp_id, path) records built from fcp_devices_by_path
FcpMappingRecords(fcp_devices_by_path) ==
    UNION {{<<fcp_id, path>> : fcp_id \in fcp_devices_by_path[path]} :
              path \in DOMAIN fcp_devices_by_path}

\* the primary key (fcp_id, tmpl_id) of template_fcp_mapping refuses the
\* INSERT of the records
MappingKeyClash(fcp_template_id, records) ==
    \/ \E x \in records, y \in records : x # y /\ EqNoCase(x[1], y[1])
    \/ \E x \in records, m \in MappingOf(fcp_template_id) :
          EqNoCase(x[1], m.fcp_id)

\* a create that clears the host default before it looks for the id
create_fcp_template_clears_first(fcp_template_id, name, description, fcp_devices_by_path, host_default, default_sp_list, min_fcp_paths_count) ==
    LET records == FcpMappingRecords(fcp_devices_by_path)
        others == [t \in DOMAIN template |->
                     IF host_default
                     THEN [template[t] EXCEPT !.is_default = 0]
                     ELSE template[t]]
        row == [name |-> name, description |-> description,
                is_default |-> IF host_default THEN 1 ELSE 0,
                min_fcp_paths_count |->
                    IF min_fcp_paths_count = 0 THEN -1
                    ELSE min_fcp_paths_count]
    IN  IF fcp_template_exist_in_db(fcp_template_id)
        THEN [TmplRaise("create_fcp_template", fcp_template_id,
                        "SDKObjectAlreadyExistError")
                 EXCEPT !.template = others]
        ELSE IF MappingKeyClash(fcp_template_id, records)
        THEN TmplRaise("create_fcp_template", fcp_template_id,
                       "SDKGuestOperationError")
        ELSE TmplOk("create_fcp_template", fcp_template_id,
                 [t \in DOMAIN template \cup {fcp_template_id} |->
                     IF t = fcp_template_id THEN row ELSE others[t]],
                 template_fcp_mapping \cup
                     {[fcp_id |-> x[1], tmpl_id |-> fcp_template_id,
                       path |-> x[2]] : x \in records},
                 [n \in DOMAIN template_sp_mapping \cup default_sp_list |->
                     IF n \in default_sp_list THEN fcp_template_id
                     ELSE template_sp_mapping[n]])

create_fcp_template(fcp_template_id, name, description, fcp_devices_by_path, host_default, default_sp_list, min_fcp_paths_count) ==
    LET records == FcpMappingRecords(fcp_devices_by_path)
        others == [t \in DOMAIN template |->
                     IF host_default
                     THEN [template[t] EXCEPT !.is_default = 0]
                     ELSE template[t]]
        row == [name |-> name, description |-> description,
                is_default |-> IF host_default THEN 1 ELSE 0,
                min_fcp_paths_count |->
                    IF min_fcp_paths_count = 0 THEN -1
                    ELSE min_fcp_paths_count]
    IN  IF fcp_template_exist_in_db(fcp_template_id)
        THEN TmplRaise("create_fcp_template", fcp_template_id,
                       "SDKObjectAlreadyExistError")
        ELSE IF MappingKeyClash(fcp_template_id, records)
        THEN TmplRaise("create_fcp_template", fcp_template_id,
                       "SDKGuestOperationError")
        ELSE TmplOk("create_fcp_template", fcp_template_id,
                 [t \in DOMAIN template \cup {fcp_template_id} |->
                     IF t = fcp_template_id THEN row ELSE others[t]],
                 template_fcp_mapping \cup
                     {[fcp_id |-> x[1], tmpl_id |-> fcp_template_id,
                       path |-> x[2]] : x \in records},
                 [n \in DOMAIN template_sp_mapping \cup default_sp_list |->
                     IF n \in default_sp_list THEN fcp_template_id
                     ELSE template_sp_mapping[n]])

\* devices of the template's mapping that are reserved or connected
get_inuse_fcp_device_by_mapping(fcp_template_id) ==
    {k \in DOMAIN fcp :
        /\ fcp[k].reserved = 1 \/ fcp[k].connections > 0
        /\ \E m \in MappingOf(fcp_template_id) : EqNoCase(m.fcp_id, k)}

\* SELECT ... FROM fcp WHERE tmpl_id=?
get_inuse_fcp_device_by_fcp_template(fcp_template_id) ==
    {k \in DOMAIN fcp : EqNoCase(fcp[k].tmpl_id, fcp_template_id)}

\* a delete that leaves the template's rows of template_sp_mapping
delete_fcp_template_keeps_sp_mapping(template_id) ==
    IF ~ fcp_template_exist_in_db(template_id)
    THEN TmplRaise("delete_fcp_template", template_id,
                   "SDKObjectNotExistError")
    ELSE IF get_inuse_fcp_device_by_fcp_template(template_id) # {}
    THEN TmplRaise("delete_fcp_template", template_id, "SDKConflictError")
    ELSE TmplOk("delete_fcp_template", template_id,
             [t \in DOMAIN template \ {template_id} |-> template[t]],
             {m \in template_fcp_mapping : m.tmpl_id # template_id},
             template_sp_mapping)

delete_fcp_template(template_id) ==
    IF ~ fcp_template_exist_in_db(template_id)
    THEN TmplRaise("delete_fcp_template", template_id,
                   "SDKObjectNotExistError")
    ELSE IF get_inuse_fcp_device_by_fcp_template(template_id) # {}
    THEN TmplRaise("delete_fcp_template", template_id, "SDKConflictError")
    ELSE TmplOk("delete_fcp_template", template_id,
             [t \in DOMAIN template \ {template_id} |-> template[t]],
             {m \in template_fcp_mapping : m.tmpl_id # template_id},
             [n \in {x \in DOMAIN template_sp_mapping :
                        template_sp_mapping[x] # template_id} |->
                 template_sp_mapping[n]])

-----------------------------------------------------------------------------
(* Template Manager: edit_fcp_template                                     *)

\* the spelling "%04x" of a device id
Lower(id) == CHOOSE d \in FcpIds : EqNoCase(d, id)

\* fcp_devices is held as the list of its ';'-separated segments, each the
\* set of device ids the segment names ('' is the empty list); the result is
\* the dict path -> ids
expand_fcp_list(fcp_devices) ==
    [p \in 0..(Len(fcp_devices) - 1) |->
        {Lower(d) : d \in fcp_devices[p + 1]}]

\* SDKConflictError with its reason code rs
TmplConflict(op, id, rs) ==
    [TmplRaise(op, id, "SDKConflictError") EXCEPT !.ret.val = rs]

\* TRUE when _validate_min_fcp_paths_count returns, FALSE when it raises
\* SDKConflictError; an argument that is None, 0 or '' is not given
validate_min_fcp_paths_count(fcp_devices, min_fcp_paths_count, fcp_template_id) ==
    LET min_given == min_fcp_paths_count.given /\ min_fcp_paths_count.val # 0
        devices_given == fcp_devices.given /\ Len(fcp_devices.val) # 0
        count == IF ~ devices_given
                 THEN get_path_count(fcp_template_id)
                 ELSE Cardinality(DOMAIN expand_fcp_list(fcp_devices.val))
        m == IF ~ min_given
             THEN template[fcp_template_id].min_fcp_paths_count
             ELSE min_fcp_paths_count.val
    IN  (min_given \/ devices_given) => ~ (m > count)

\* devices_cmd of get_fcp_templates_details for one template: the rows of
\* template_fcp_mapping LEFT OUTER JOIN fcp; inuse tells that connections or
\* reserved of the joined fcp row is neither None nor 0
FcpDetail(fcp_template_id) ==
    {[fcp_id |-> m.fcp_id, path |-> m.path,
      inuse |-> \E k \in RowsOf(fcp, m.fcp_id) :
                   fcp[k].connections # 0 \/ fcp[k].reserved # 0] :
        m \in MappingOf(fcp_template_id)}

\* fcp_from_input: fcp_id -> path, the last path wins
FcpFromInput(fcp_devices_by_path) ==
    [d \in UNION {fcp_devices_by_path[p] : p \in DOMAIN fcp_devices_by_path}
        |-> CHOOSE p \in DOMAIN fcp_devices_by_path :
               /\ d \in fcp_devices_by_path[p]
               /\ \A q \in DOMAIN fcp_devices_by_path :
                     d \in fcp_devices_by_path[q] => q <= p]

\* an UPDATE of the template's row that does not clear the other defaults
update_basic_info_keeps_defaults(name, description, host_default, min_fcp_paths_count, fcp_template_id) ==
    [template EXCEPT ![fcp_template_id] =
        [name |-> name, description |-> description,
         is_default |-> IF host_default.given
                        THEN (IF host_default.val THEN 1 ELSE 0)
                        ELSE template[fcp_template_id].is_default,
         min_fcp_paths_count |-> min_fcp_paths_count]]

\* an UPDATE that writes is_default = False when host_default is None
update_basic_info_none_is_false(name, description, host_default, min_fcp_paths_count, fcp_template_id) ==
    LET cleared == IF host_default.given /\ host_default.val
                   THEN [t \in DOMAIN template |->
                            [template[t] EXCEPT !.is_default = 0]]
                   ELSE template
    IN  [cleared EXCEPT ![fcp_template_id] =
            [name |-> name, description |-> description,
             is_default |-> IF host_default.given /\ host_default.val
                            THEN 1 ELSE 0,
             min_fcp_paths_count |-> min_fcp_paths_count]]

\* table template after the UPDATE; host_default is None when the stored
\* is_default is written back
update_basic_info_of_fcp_template(name, description, host_default, min_fcp_paths_count, fcp_template_id) ==
    LET cleared == IF host_default.given /\ host_default.val
                   THEN [t \in DOMAIN template |->
                            [template[t] EXCEPT !.is_default = 0]]
                   ELSE template
    IN  [cleared EXCEPT ![fcp_template_id] =
            [name |-> name, description |-> description,
             is_default |-> IF host_default.given
                            THEN (IF host_default.val THEN 1 ELSE 0)
                            ELSE template[fcp_template_id].is_default,
             min_fcp_paths_count |-> min_fcp_paths_count]]

\* a replacement that leaves the previous providers of the template
bulk_set_sp_default_keeps_previous(template_id, sp_name_list) ==
    [n \in DOMAIN template_sp_mapping \cup sp_name_list |->
        IF n \in sp_name_list THEN template_id ELSE template_sp_mapping[n]]

\* table template_sp_mapping after the two DELETEs and the INSERT
bulk_set_sp_default_by_fcp_template(template_id, sp_name_list) ==
    [n \in {x \in DOMAIN template_sp_mapping :
               template_sp_mapping[x] # template_id} \cup sp_name_list |->
        IF n \in sp_name_list THEN template_id ELSE template_sp_mapping[n]]

\* the devices of del_set that are in use, whatever template they were
\* allocated from
not_allow_for_del_any_template(fcp_template_id, del_set) ==
    {d \in del_set :
        \E r \in FcpDetail(fcp_template_id) : r.fcp_id = d /\ r.inuse}

\* the devices of del_set that are in use and allocated from the template
not_allow_for_del(fcp_template_id, del_set) ==
    {d \in del_set :
        \E r \in FcpDetail(fcp_template_id) : r.fcp_id = d /\ r.inuse}
        \cap get_inuse_fcp_device_by_fcp_template(fcp_template_id)

edit_fcp_template(fcp_template_id, name, description, fcp_devices, host_default, default_sp_list, min_fcp_paths_count) ==
    LET op == "edit_fcp_template"
        fcp_path_count_from_input == Len(fcp_devices.val)
        fcp_path_count_in_db == get_path_count(fcp_template_id)
        inuse_fcp == get_inuse_fcp_device_by_fcp_template(fcp_template_id)
        tmpl_basic == template[fcp_template_id]
        fcp_detail == FcpDetail(fcp_template_id)
        fcp_from_input == FcpFromInput(expand_fcp_list(fcp_devices.val))
        fcp_in_db == {r.fcp_id : r \in fcp_detail}
        add_set == DOMAIN fcp_from_input \ fcp_in_db
        inter_set == DOMAIN fcp_from_input \cap fcp_in_db
        del_set == fcp_in_db \ DOMAIN fcp_from_input
        deleted == {m \in template_fcp_mapping :
                      ~ (/\ m.tmpl_id = fcp_template_id
                         /\ \E d \in del_set : EqNoCase(m.fcp_id, d))}
        \* the primary key (fcp_id, tmpl_id) refuses the INSERT
        clash == \/ \E x \in add_set, y \in add_set :
                       x # y /\ EqNoCase(x, y)
                 \/ \E x \in add_set, m \in deleted :
                       m.tmpl_id = fcp_template_id /\ EqNoCase(m.fcp_id, x)
        inserted == deleted \cup
                      {[fcp_id |-> d, tmpl_id |-> fcp_template_id,
                        path |-> fcp_from_input[d]] : d \in add_set}
        updated == {IF m.tmpl_id = fcp_template_id /\ m.fcp_id \in inter_set
                    THEN [m EXCEPT !.path = fcp_from_input[m.fcp_id]]
                    ELSE m : m \in inserted}
        new_mapping == IF fcp_devices.given THEN updated
                       ELSE template_fcp_mapping
        new_template ==
            IF name.given \/ description.given \/ host_default.given
               \/ min_fcp_paths_count.given
            THEN update_basic_info_of_fcp_template(
                     IF name.given THEN name.val ELSE tmpl_basic.name,
                     IF description.given THEN description.val
                     ELSE tmpl_basic.description,
                     host_default,
                     IF min_fcp_paths_count.given
                     THEN min_fcp_paths_count.val
                     ELSE tmpl_basic.min_fcp_paths_count,
                     fcp_template_id)
            ELSE template
        new_sp == IF default_sp_list.given
                  THEN bulk_set_sp_default_by_fcp_template(
                           fcp_template_id, default_sp_list.val)
                  ELSE template_sp_mapping
    IN  IF ~ fcp_template_exist_in_db(fcp_template_id)
        THEN TmplRaise(op, fcp_template_id, "SDKObjectNotExistError")
        ELSE IF /\ fcp_devices.given
                /\ fcp_path_count_from_input # fcp_path_count_in_db
                /\ inuse_fcp # {}
        THEN TmplConflict(op, fcp_template_id, 24)
        ELSE IF ~ validate_min_fcp_paths_count(fcp_devices,
                                               min_fcp_paths_count,
                                               fcp_template_id)
        THEN TmplConflict(op, fcp_template_id, 23)
        ELSE IF /\ fcp_devices.given
                /\ not_allow_for_del(fcp_template_id, del_set) # {}
        THEN TmplConflict(op, fcp_template_id, 24)
        ELSE IF fcp_devices.given /\ clash
        THEN TmplRaise(op, fcp_template_id, "SDKGuestOperationError")
        ELSE TmplOk(op, fcp_template_id, new_template, new_mapping, new_sp)

-----------------------------------------------------------------------------
(* Specification SpecTmpl: templates created and deleted while the devices  *)
(* DevIds are reserved and unreserved                                      *)

\* fcp_devices_by_path arguments: path -> set of fcp_id; the last one names
\* a device on two paths
ByPaths ==
    {<<{"1a00"}, {"1b00"}>>,
     <<{"1a00", "1b00"}>>,
     <<{"1A00"}>>,
     <<{"1a00"}, {"1A00", "1b00"}>>}

\* a path list as the dict the caller passes: keys 0..n-1
AsDict(paths) == [p \in 0..(Len(paths) - 1) |-> paths[p + 1]]

InitTmpl ==
    /\ fcp = [d \in DevIds |-> IF d = "1a00" THEN FreeOnA ELSE FreeOnB]
    /\ InitStore
    /\ InitIdle

\* a Template Manager call run as one get_fcp_conn block
TmplCall(r) ==
    /\ template' = r.template
    /\ template_fcp_mapping' = r.template_fcp_mapping
    /\ template_sp_mapping' = r.template_sp_mapping
    /\ ret' = r.ret
    /\ UNCHANGED <<fcp, sel, lock_owner, lock_count, in_transaction,
                   skip_commit, pc, picked, handed, request, txn, saved, trip>>

CreateFcpTemplate ==
    \E id \in TmplIds, paths \in ByPaths, host_default \in BOOLEAN,
       default_sp_list \in {{}, {"SP1"}, SpNames}, m \in {0, 1} :
        TmplCall(create_fcp_template(id, "tmpl", "", AsDict(paths),
                                     host_default, default_sp_list, m))

DeleteFcpTemplate ==
    \E id \in TmplIds : TmplCall(delete_fcp_template(id))

TmplReserveFcps ==
    \E ids \in (SUBSET ArgIds) \ {{}}, id \in TmplIds :
        FcpCall(reserve_fcps(ids, "USERA", id))

TmplUnreserveFcps ==
    \E ids \in (SUBSET ArgIds) \ {{}} : FcpCall(unreserve_fcps(ids))

NextTmpl ==
    \/ CreateFcpTemplate
    \/ DeleteFcpTemplate
    \/ TmplReserveFcps
    \/ TmplUnreserveFcps

SpecTmpl == InitTmpl /\ [][NextTmpl]_vars

\* the call just made is delete_fcp_template(id) on a stored template
DeleteCalled(id) ==
    /\ ret'.op = "delete_fcp_template"
    /\ ret'.fcp = id
    /\ id \in DOMAIN template

\* C10: delete_fcp_template(T) on a stored template fails with
\* SDKConflictError, leaving the template and its device and provider
\* mappings unchanged, whenever some fcp row has tmpl_id = T; when no fcp row
\* has tmpl_id = T, as after unreserve_fcps of all such devices, it succeeds
\* and removes the template with its mappings.
C10_DeleteRefusedWhileInUse ==
    [][\A id \in TmplIds :
         DeleteCalled(id) =>
             IF \E k \in DOMAIN fcp : fcp[k].tmpl_id = id
             THEN /\ ret'.exc = "SDKConflictError"
                  /\ tables' = tables
             ELSE /\ ret'.exc = ""
                  /\ id \notin DOMAIN template'
                  /\ \A m \in template_fcp_mapping' : m.tmpl_id # id
                  /\ \A n \in DOMAIN template_sp_mapping' :
                        template_sp_mapping'[n] # id
                  /\ fcp' = fcp]_vars

\* delete_fcp_template was refused for a template that has mappings and a
\* device allocated from it
C10_Witness ==
    /\ ret.op = "delete_fcp_template"
    /\ ret.exc = "SDKConflictError"
    /\ MappingOf(ret.fcp) # {}
    /\ \E n \in DOMAIN template_sp_mapping : template_sp_mapping[n] = ret.fcp
    /\ \E k \in DOMAIN fcp : fcp[k].tmpl_id = ret.fcp /\ fcp[k].reserved = 1

-----------------------------------------------------------------------------
(* Specification SpecDrain: devices of stored templates are reserved,       *)
(* attached, detached and unreserved while the templates are deleted        *)

\* the template of the drain scenario: one device on each of two paths
DrainCreate ==
    \E id \in TmplIds :
        TmplCall(create_fcp_template(id, "tmpl", "",
                                     AsDict(<<{"1a00"}, {"1b00"}>>),
                                     FALSE, {}, 0))

\* devices are reserved from a stored template
DrainReserve ==
    \E ids \in (SUBSET ArgIds) \ {{}}, a \in Assigners, id \in TmplIds :
        /\ fcp_template_exist_in_db(id)
        /\ FcpCall(reserve_fcps(ids, a, id))

NextDrain ==
    \/ DrainCreate
    \/ DeleteFcpTemplate
    \/ DrainReserve
    \/ TmplUnreserveFcps
    \/ IncreaseConnections
    \/ DecreaseConnections

SpecDrain == InitTmpl /\ [][NextDrain]_vars

Idle(row) == row.connections = 0 /\ row.reserved = 0

\* C11: when every device whose tmpl_id is T has been drained to
\* connections = 0 and has reserved = 0, delete_fcp_template(T) on the
\* stored template T succeeds: reserve, attach, detach and unreserve leave
\* no idle device that keeps T from being deleted.
C11_DeleteAfterDrain ==
    [][\A id \in TmplIds :
         (/\ DeleteCalled(id)
          /\ \A k \in DOMAIN fcp : fcp[k].tmpl_id = id => Idle(fcp[k]))
         => (/\ ret'.exc = ""
             /\ id \notin DOMAIN template')]_vars

\* a template was deleted while every device is idle and both devices
\* have been allocated before
C11_Witness ==
    /\ ret.op = "delete_fcp_template"
    /\ ret.exc = ""
    /\ \A k \in DOMAIN fcp : Idle(fcp[k]) /\ fcp[k].assigner_id # ""

-----------------------------------------------------------------------------
(* Claims on delete_fcp_template, checked under SpecTmpl                   *)

-----------------------------------------------------------------------------
(* Claims on the Device State Manager, checked under Spec                  *)

\* the step is reserve_fcps or unreserve_fcps on the batch fcp_ids
BatchCalled(fcp_ids) ==
    \/ \E a \in Assigners : FcpCall(reserve_fcps(fcp_ids, a, "T1"))
    \/ FcpCall(unreserve_fcps(fcp_ids))

\* C19: reserve_fcps and unreserve_fcps on a batch of which some fcp_id has
\* no row in table fcp fail with SDKObjectNotExistError and change no device.
C19_Original ==
    [][\A fcp_ids \in (SUBSET ArgIds) \ {{}} :
         (/\ BatchCalled(fcp_ids)
          /\ \E id \in fcp_ids : RowsOf(fcp, id) = {})
         => (/\ ret'.exc = "SDKObjectNotExistError"
             /\ fcp' = fcp)]_vars

\* C21: reset_fcps_of_assigner(A) sets assigner_id='', reserved=0,
\* connections=0 and tmpl_id='' on exactly the rows whose assigner_id is A,
\* leaves every other row and the set of rows as they were, and changes no
\* template table.
C21_ResetOnlyOfAssigner ==
    [][\A a \in Assigners :
         FcpCall(reset_fcps_of_assigner(a)) =>
             /\ DOMAIN fcp' = DOMAIN fcp
             /\ \A k \in DOMAIN fcp :
                   fcp'[k] = IF fcp[k].assigner_id = a
                             THEN [fcp[k] EXCEPT !.assigner_id = "",
                                                 !.reserved = 0,
                                                 !.connections = 0,
                                                 !.tmpl_id = ""]
                             ELSE fcp[k]
             /\ UNCHANGED <<template, template_fcp_mapping,
                            template_sp_mapping>>]_vars

\* after a reset one device is held by nobody while the other is still
\* reserved and connected for its assigner
C21_Witness ==
    /\ ret.op = "reset_fcps_of_assigner"
    /\ \E k \in DOMAIN fcp :
          /\ fcp[k].assigner_id = ""
          /\ fcp[k].reserved = 0 /\ fcp[k].connections = 0
          /\ fcp[k].tmpl_id = ""
    /\ \E k \in DOMAIN fcp :
          /\ fcp[k].assigner_id # ""
          /\ fcp[k].reserved = 1 /\ fcp[k].connections > 0
          /\ fcp[k].tmpl_id # ""

\* C30: unreserve_fcps sets reserved=0 and tmpl_id='' on each listed device
\* whatever its connections value is, and leaves the other columns of that
\* device (connections, assigner_id, state, WWPNs, pchid) and every device
\* not listed unchanged.
C30_UnreserveKeepsConnections ==
    [][\A fcp_ids \in SUBSET ArgIds :
         FcpCall(unreserve_fcps(fcp_ids)) =>
             /\ DOMAIN fcp' = DOMAIN fcp
             /\ \A k \in DOMAIN fcp :
                   fcp'[k] = IF \E id \in fcp_ids : EqNoCase(k, id)
                             THEN [fcp[k] EXCEPT !.reserved = 0,
                                                 !.tmpl_id = ""]
                             ELSE fcp[k]]_vars

\* after an unreserve one device is unreserved with its connections kept
\* while the other, not listed, is still reserved
C30_Witness ==
    /\ ret.op = "unreserve_fcps"
    /\ \E k \in DOMAIN fcp :
          /\ fcp[k].reserved = 0 /\ fcp[k].tmpl_id = ""
          /\ fcp[k].connections > 0
    /\ \E k \in DOMAIN fcp :
          fcp[k].reserved = 1 /\ fcp[k].tmpl_id # ""

\* C20: increase_connections_by_assigner(fcp, A) raises connections of the
\* row of that fcp_id held by A by exactly 1 and returns the new count; when
\* no row has that fcp_id, or its assigner_id is not A, it fails with
\* SDKObjectNotExistError and changes nothing; no other row and no other
\* field is changed.
C20_IncreaseByAssigner ==
    [][\A id \in ArgIds, a \in Assigners :
         FcpCall(increase_connections_by_assigner(id, a)) =>
             LET held == {k \in RowsOf(fcp, id) : fcp[k].assigner_id = a}
             IN  IF held = {}
                 THEN /\ ret'.exc = "SDKObjectNotExistError"
                      /\ fcp' = fcp
                 ELSE /\ ret'.exc = ""
                      /\ DOMAIN fcp' = DOMAIN fcp
                      /\ \A k \in DOMAIN fcp :
                            IF k \in held
                            THEN /\ fcp'[k] =
                                      [fcp[k] EXCEPT !.connections = @ + 1]
                                 /\ ret'.val = fcp[k].connections + 1
                            ELSE fcp'[k] = fcp[k]]_vars

\* an increase succeeded on a device while another device is in the table
C20_Witness ==
    /\ ret.op = "increase_connections_by_assigner"
    /\ ret.exc = ""
    /\ ret.val > 0
    /\ \E k \in DOMAIN fcp :
          /\ EqNoCase(k, ret.fcp)
          /\ fcp[k].connections = ret.val
          /\ fcp[k].assigner_id # ""
    /\ \E k \in DOMAIN fcp : ~ EqNoCase(k, ret.fcp)

-----------------------------------------------------------------------------
(* Specification SpecEdit: templates T1 and T2 are created, edited and      *)
(* deleted by calls that are requested, handled and returned, while device *)
(* 1a00 is reserved, connected and released                                *)

MaxMin == 2

\* fcp_devices arguments of edit_fcp_template: '', '1A00', '1b00',
\* '1a00;1b00', '1a01;1b00' and '1a00;1a00'
EditDevices ==
    {<<>>, <<{"1A00"}>>, <<{"1b00"}>>, <<{"1a00"}, {"1b00"}>>,
     <<{"1a01"}, {"1b00"}>>, <<{"1a00"}, {"1a00"}>>}

\* fcp_devices of the created templates: '1a00;1b00'
TwoPaths == <<{"1a00"}, {"1b00"}>>

Optional(S) == {None} \cup {Some(v) : v \in S}

Call(op, id, name, description, fcp_devices, host_default, default_sp_list, min_fcp_paths_count) ==
    [op |-> op, id |-> id, name |-> name, description |-> description,
     fcp_devices |-> fcp_devices, host_default |-> host_default,
     default_sp_list |-> default_sp_list,
     min_fcp_paths_count |-> min_fcp_paths_count]

\* the caller of create_fcp_template passes a min_fcp_paths_count that does
\* not exceed the number of paths; T2 holds 1a00 and 1b00 and is edited in
\* host_default only
EditCalls ==
    {Call("create_fcp_template", "T1", Some("tmpl"), Some(""),
          Some(TwoPaths), Some(h), Some({}), Some(m)) :
        h \in BOOLEAN, m \in 0..Len(TwoPaths)}
    \cup {Call("create_fcp_template", "T2", Some("tmpl"), Some(""),
               Some(TwoPaths), Some(h), Some({}), Some(0)) :
             h \in BOOLEAN}
    \cup {Call("edit_fcp_template", "T1", None, None, d, h, None, m) :
             d \in Optional(EditDevices), h \in Optional(BOOLEAN),
             m \in Optional(0..MaxMin)}
    \cup {Call("edit_fcp_template", "T2", None, None, None, Some(h), None,
               None) : h \in BOOLEAN}
    \cup {Call("delete_fcp_template", id, None, None, None, None, None,
               None) : id \in TmplIds}

InitEdit ==
    /\ fcp = [d \in DevIds |-> IF d = "1a00" THEN FreeOnA ELSE FreeOnB]
    /\ InitStore
    /\ InitIdle

\* a Template Manager call is made with the arguments r
RequestCall(calls) ==
    /\ request.op = ""
    /\ request' \in calls
    /\ ret' = NoRet
    /\ UNCHANGED <<fcp, template, template_fcp_mapping, template_sp_mapping,
                   sel, lock_owner, lock_count, in_transaction, skip_commit,
                   pc, picked, handed, txn, saved, trip>>

Pending == request.op # "" /\ ret.op = ""

\* the pending call runs as one get_fcp_conn block
HandleCall ==
    /\ Pending
    /\ TmplCall(
         CASE request.op = "create_fcp_template" ->
                create_fcp_template(request.id, request.name.val,
                    request.description.val,
                    expand_fcp_list(request.fcp_devices.val),
                    request.host_default.val, request.default_sp_list.val,
                    request.min_fcp_paths_count.val)
           [] request.op = "edit_fcp_template" ->
                edit_fcp_template(request.id, request.name,
                    request.description, request.fcp_devices,
                    request.host_default, request.default_sp_list,
                    request.min_fcp_paths_count)
           [] request.op = "delete_fcp_template" ->
                delete_fcp_template(request.id))

\* the caller takes the outcome of the call
ReturnCall ==
    /\ request.op # ""
    /\ ret.op # ""
    /\ request' = NoCall
    /\ ret' = NoRet
    /\ UNCHANGED <<fcp, template, template_fcp_mapping, template_sp_mapping,
                   sel, lock_owner, lock_count, in_transaction, skip_commit,
                   pc, picked, handed, txn, saved, trip>>

EditRequest == RequestCall(EditCalls)

EditReserve ==
    \E id \in TmplIds :
        /\ request.op = ""
        /\ fcp_template_exist_in_db(id)
        /\ FcpCall(reserve_fcps({"1A00"}, "USERA", id))

EditUnreserve ==
    /\ request.op = ""
    /\ FcpCall(unreserve_fcps({"1A00"}))

EditIncrease ==
    /\ request.op = ""
    /\ fcp["1a00"].connections < MaxConn
    /\ FcpCall(increase_connections_by_assigner("1A00", "USERA"))

EditDecrease ==
    /\ request.op = ""
    /\ FcpCall(decrease_connections("1A00"))

NextEdit ==
    \/ EditRequest
    \/ HandleCall
    \/ ReturnCall
    \/ EditReserve
    \/ EditUnreserve
    \/ EditIncrease
    \/ EditDecrease

SpecEdit == InitEdit /\ [][NextEdit]_vars

\* the step runs the pending call
Handled == Pending /\ ret'.op # ""

Defaults(tbl) == {t \in DOMAIN tbl : tbl[t].is_default = 1}

\* a device is allocated from the template: its tmpl_id is the template and
\* its connections or reserved is not 0
AllocatedFrom(k, id) ==
    /\ fcp[k].tmpl_id = id
    /\ fcp[k].connections # 0 \/ fcp[k].reserved # 0

\* C12: after any sequence of create_fcp_template, edit_fcp_template and
\* delete_fcp_template at most one template has is_default = 1, and a create
\* or edit that succeeds with host_default = True leaves exactly that
\* template as the default.
C12_AtMostOneDefault ==
    /\ [](Cardinality(Defaults(template)) <= 1)
    /\ [][(/\ Handled
           /\ request.op \in {"create_fcp_template", "edit_fcp_template"}
           /\ request.host_default.given
           /\ request.host_default.val
           /\ ret'.exc = "")
          => Defaults(template') = {request.id}]_vars

\* an edit with host_default = True made T1 the only default of the two
\* stored templates
C12_Witness ==
    /\ ret.op = "edit_fcp_template"
    /\ ret.exc = ""
    /\ request.id = "T1"
    /\ request.host_default = Some(TRUE)
    /\ DOMAIN template = TmplIds
    /\ Defaults(template) = {"T1"}

\* C13: edit_fcp_template of a stored template with an fcp_devices of a path
\* count other than the stored path count fails with SDKConflictError and
\* changes no table whenever some device is allocated from the template.
C13_PathCountChangeRefused ==
    [][(/\ Handled
        /\ request.op = "edit_fcp_template"
        /\ fcp_template_exist_in_db(request.id)
        /\ request.fcp_devices.given
        /\ Len(request.fcp_devices.val) # get_path_count(request.id)
        /\ \E k \in DOMAIN fcp : AllocatedFrom(k, request.id))
       => (/\ ret'.exc = "SDKConflictError"
           /\ tables' = tables)]_vars

\* an edit that drops a path of the two-path template was refused while
\* 1a00 is connected under the template
C13_Witness ==
    /\ ret.op = "edit_fcp_template"
    /\ ret.exc = "SDKConflictError"
    /\ request.fcp_devices.given
    /\ Len(request.fcp_devices.val) = 1
    /\ get_path_count(request.id) = 2
    /\ fcp["1a00"].connections > 0
    /\ AllocatedFrom("1a00", request.id)

\* the devices mapped to the template that the fcp_devices argument omits
Omitted(id, fcp_devices) ==
    {m.fcp_id : m \in MappingOf(id)} \
        {d \in FcpIds : \E p \in 1..Len(fcp_devices) :
                           \E x \in fcp_devices[p] : EqNoCase(x, d)}

\* C14: an edit_fcp_template that keeps the path count and omits mapped
\* devices fails with SDKConflictError, changing no table, when one of them
\* is allocated from this template; when none is, it is not refused for the
\* devices it omits (reason code 24), and when it succeeds the omitted
\* devices, also those in use under another template, lose their mapping to
\* this template while the mappings of the other templates and table fcp
\* stay as they were.
C14_OmittedDeviceInUse ==
    [][(/\ Handled
        /\ request.op = "edit_fcp_template"
        /\ fcp_template_exist_in_db(request.id)
        /\ request.fcp_devices.given
        /\ Len(request.fcp_devices.val) = get_path_count(request.id))
       => LET omitted == Omitted(request.id, request.fcp_devices.val)
              blocked == {d \in omitted :
                            \E k \in RowsOf(fcp, d) :
                               AllocatedFrom(k, request.id)}
          IN  IF blocked # {}
              THEN /\ ret'.exc = "SDKConflictError"
                   /\ tables' = tables
              ELSE /\ ~ (ret'.exc = "SDKConflictError" /\ ret'.val = 24)
                   /\ ret'.exc = "" =>
                        /\ \A m \in template_fcp_mapping' :
                              m.tmpl_id = request.id => m.fcp_id \notin omitted
                        /\ {m \in template_fcp_mapping' :
                               m.tmpl_id # request.id}
                           = {m \in template_fcp_mapping :
                                 m.tmpl_id # request.id}
                        /\ fcp' = fcp]_vars

\* an edit of T1 that omits 1a00 succeeded while 1a00 is reserved under T2:
\* T1 no longer maps 1a00, T2 still does
C14_Witness ==
    /\ ret.op = "edit_fcp_template"
    /\ ret.exc = ""
    /\ request.id = "T1"
    /\ request.fcp_devices = Some(<<{"1a01"}, {"1b00"}>>)
    /\ AllocatedFrom("1a00", "T2")
    /\ ~ \E m \in MappingOf("T1") : m.fcp_id = "1a00"
    /\ \E m \in MappingOf("T1") : m.fcp_id = "1a01"
    /\ \E m \in MappingOf("T2") : m.fcp_id = "1a00"

\* C15: every stored template whose min_fcp_paths_count is explicit (not -1)
\* has min_fcp_paths_count <= its number of distinct paths in
\* template_fcp_mapping.
C15_Original ==
    \A t \in DOMAIN template :
        template[t].min_fcp_paths_count # -1 =>
            template[t].min_fcp_paths_count <= get_path_count(t)

\* C17: create_fcp_template with an id that is stored fails with
\* SDKObjectAlreadyExistError and changes no table, also when host_default =
\* True is requested.
C17_CreateExistingRefused ==
    [][(/\ Handled
        /\ request.op = "create_fcp_template"
        /\ fcp_template_exist_in_db(request.id))
       => (/\ ret'.exc = "SDKObjectAlreadyExistError"
           /\ tables' = tables)]_vars

\* create of the stored T1 with host_default = True was refused while T2 is
\* the host default
C17_Witness ==
    /\ ret.op = "create_fcp_template"
    /\ ret.exc = "SDKObjectAlreadyExistError"
    /\ request.id = "T1"
    /\ request.host_default = Some(TRUE)
    /\ Defaults(template) = {"T2"}
    /\ MappingOf("T1") # {}

-----------------------------------------------------------------------------
(* Specification SpecFrame: template T1 is created, edited in every        *)
(* combination of given and omitted arguments, and deleted                 *)

FrameCalls ==
    {Call("create_fcp_template", "T1", Some("tmpl"), Some("d"),
          Some(TwoPaths), Some(h), Some(sp), Some(m)) :
        h \in BOOLEAN, sp \in {{}, {"SP1"}}, m \in 0..1}
    \cup {Call("edit_fcp_template", "T1", n, d, f, h, sp, m) :
             n \in Optional({""}), d \in Optional({""}),
             f \in Optional({<<>>, <<{"1a01"}, {"1b00"}>>}),
             h \in Optional(BOOLEAN), sp \in Optional({{}, {"SP2"}}),
             m \in Optional({MaxMin})}
    \cup {Call("delete_fcp_template", "T1", None, None, None, None, None,
               None)}

FrameRequest == RequestCall(FrameCalls)

NextFrame ==
    \/ FrameRequest
    \/ HandleCall
    \/ ReturnCall

SpecFrame == InitEdit /\ [][NextFrame]_vars

\* the storage providers whose default template is id
ProvidersOf(tbl, id) == {n \in DOMAIN tbl : tbl[n] = id}

\* C16: an edit_fcp_template that succeeds leaves unchanged every part of
\* the template whose argument is omitted (None): name, description,
\* is_default, min_fcp_paths_count, the device mappings and the provider
\* mappings; a given argument is written also when it is '' or []: the name
\* and the description become '', the device mappings resp. the provider
\* mappings of the template are removed.
C16_OmittedLeftUnchanged ==
    [][(/\ Handled
        /\ request.op = "edit_fcp_template"
        /\ fcp_template_exist_in_db(request.id)
        /\ ret'.exc = "")
       => LET id == request.id
          IN  /\ template'[id].name =
                    IF request.name.given THEN request.name.val
                    ELSE template[id].name
              /\ template'[id].description =
                    IF request.description.given
                    THEN request.description.val
                    ELSE template[id].description
              /\ ~ request.host_default.given =>
                    template'[id].is_default = template[id].is_default
              /\ ~ request.min_fcp_paths_count.given =>
                    template'[id].min_fcp_paths_count =
                        template[id].min_fcp_paths_count
              /\ ~ request.fcp_devices.given =>
                    template_fcp_mapping' = template_fcp_mapping
              /\ ~ request.default_sp_list.given =>
                    template_sp_mapping' = template_sp_mapping
              /\ request.fcp_devices = Some(<<>>) =>
                    ~ \E m \in template_fcp_mapping' : m.tmpl_id = id
              /\ request.default_sp_list = Some({}) =>
                    ProvidersOf(template_sp_mapping', id) = {}]_vars

\* an edit that passes only name = '' succeeded on the host default
\* template: the name is '', the description, the default flag, the
\* minimum, the two paths and the provider are those of the create
C16_Witness ==
    /\ ret.op = "edit_fcp_template"
    /\ ret.exc = ""
    /\ request = Call("edit_fcp_template", "T1", Some(""), None, None, None,
                      None, None)
    /\ template["T1"] = [name |-> "", description |-> "d", is_default |-> 1,
                         min_fcp_paths_count |-> 1]
    /\ get_path_count("T1") = 2
    /\ ProvidersOf(template_sp_mapping, "T1") = {"SP1"}

-----------------------------------------------------------------------------
(* Template Manager, statement by statement: the DML statements a call     *)
(* executes on _FCP_CONN inside its get_fcp_conn block                     *)

NoRow == TmplRow("", 0, 0)

\* a DML statement: kind, the template id, the fcp_id or sp_name, the path
\* and the template row it carries; nested when it is executed in a
\* get_fcp_conn block of a helper called inside the block of the call
Stmt(kind, id, key, path, row, nested) ==
    [kind |-> kind, id |-> id, key |-> key, path |-> path, row |-> row,
     nested |-> nested]

\* the members of a set of device ids in ORDER BY fcp_id
IdSeq(S) ==
    LET ords == SortedSeq({FcpOrd(d) : d \in S})
    IN  [i \in 1..Len(ords) |-> FcpIdSeq[ords[i]]]

\* the members of a set in the order they are iterated
RECURSIVE SeqOf(_)
SeqOf(S) ==
    IF S = {} THEN <<>>
    ELSE LET x == CHOOSE y \in S : TRUE
         IN  <<x>> \o SeqOf(S \ {x})

RECURSIVE Flatten(_)
Flatten(ss) == IF ss = <<>> THEN <<>> ELSE Head(ss) \o Flatten(Tail(ss))

\* the tables a statement works on
TmplTables ==
    [template |-> template, template_fcp_mapping |-> template_fcp_mapping,
     template_sp_mapping |-> template_sp_mapping]

\* the statement violates a primary key: template(id),
\* template_fcp_mapping(fcp_id, tmpl_id), template_sp_mapping(sp_name)
Refused(s, T) ==
    \/ s.kind = "insert_template" /\ s.id \in DOMAIN T.template
    \/ /\ s.kind = "insert_mapping"
       /\ \E m \in T.template_fcp_mapping :
             m.tmpl_id = s.id /\ EqNoCase(m.fcp_id, s.key)
    \/ s.kind = "insert_sp" /\ s.key \in DOMAIN T.template_sp_mapping

\* the tables after the statement
Apply(s, T) ==
    LET tm == T.template
        fm == T.template_fcp_mapping
        sm == T.template_sp_mapping
    IN  CASE s.kind = "clear_defaults" ->
               [T EXCEPT !.template =
                   [t \in DOMAIN tm |-> [tm[t] EXCEPT !.is_default = 0]]]
          [] s.kind = "insert_template" ->
               [T EXCEPT !.template =
                   [t \in DOMAIN tm \cup {s.id} |->
                       IF t = s.id THEN s.row ELSE tm[t]]]
          [] s.kind = "update_template" ->
               [T EXCEPT !.template =
                   [t \in DOMAIN tm |-> IF t = s.id THEN s.row ELSE tm[t]]]
          [] s.kind = "delete_template" ->
               [T EXCEPT !.template = [t \in DOMAIN tm \ {s.id} |-> tm[t]]]
          [] s.kind = "insert_mapping" ->
               [T EXCEPT !.template_fcp_mapping =
                   fm \cup {[fcp_id |-> s.key, tmpl_id |-> s.id,
                             path |-> s.path]}]
          [] s.kind = "delete_mapping" ->
               [T EXCEPT !.template_fcp_mapping =
                   {m \in fm :
                       ~ (m.tmpl_id = s.id /\ EqNoCase(m.fcp_id, s.key))}]
          [] s.kind = "update_path" ->
               [T EXCEPT !.template_fcp_mapping =
                   {IF m.tmpl_id = s.id /\ EqNoCase(m.fcp_id, s.key)
                    THEN [m EXCEPT !.path = s.path] ELSE m : m \in fm}]
          [] s.kind = "delete_fcp_mapping" ->
               [T EXCEPT !.template_fcp_mapping =
                   {m \in fm : m.tmpl_id # s.id}]
          [] s.kind = "insert_sp" ->
               [T EXCEPT !.template_sp_mapping =
                   [n \in DOMAIN sm \cup {s.key} |->
                       IF n = s.key THEN s.id ELSE sm[n]]]
          [] s.kind = "update_sp" ->
               [T EXCEPT !.template_sp_mapping =
                   [n \in DOMAIN sm |-> IF n = s.key THEN s.id ELSE sm[n]]]
          [] s.kind = "delete_sp_name" ->
               [T EXCEPT !.template_sp_mapping =
                   [n \in DOMAIN sm \ {s.key} |-> sm[n]]]
          [] s.kind = "delete_sp_mapping" ->
               [T EXCEPT !.template_sp_mapping =
                   [n \in {x \in DOMAIN sm : sm[x] # s.id} |-> sm[n]]]

\* the DML of create_fcp_template, executed on conn in the block of the call
CreateStatements(c) ==
    LET by_path == expand_fcp_list(c.fcp_devices.val)
        row == TmplRow(c.name.val, IF c.host_default.val THEN 1 ELSE 0,
                       IF c.min_fcp_paths_count.val = 0 THEN -1
                       ELSE c.min_fcp_paths_count.val)
        sps == SeqOf(c.default_sp_list.val)
        to_add == SelectSeq(sps, LAMBDA n : ~ sp_name_exist_in_db(n))
        to_update == SelectSeq(sps, LAMBDA n : sp_name_exist_in_db(n))
    IN  (IF c.host_default.val
         THEN <<Stmt("clear_defaults", "", "", 0, NoRow, FALSE)>>
         ELSE <<>>)
        \o <<Stmt("insert_template", c.id, "", 0,
                  [row EXCEPT !.description = c.description.val], FALSE)>>
        \o Flatten([i \in 1..Len(c.fcp_devices.val) |->
                      LET ids == IdSeq(by_path[i - 1])
                      IN  [k \in 1..Len(ids) |->
                              Stmt("insert_mapping", c.id, ids[k], i - 1,
                                   NoRow, FALSE)]])
        \o [k \in 1..Len(to_add) |->
               Stmt("insert_sp", c.id, to_add[k], 0, NoRow, FALSE)]
        \o [k \in 1..Len(to_update) |->
               Stmt("update_sp", c.id, to_update[k], 0, NoRow, FALSE)]

\* the DML of delete_fcp_template
DeleteStatements(c) ==
    <<Stmt("delete_template", c.id, "", 0, NoRow, FALSE),
      Stmt("delete_sp_mapping", c.id, "", 0, NoRow, FALSE),
      Stmt("delete_fcp_mapping", c.id, "", 0, NoRow, FALSE)>>

\* the DML of edit_fcp_template, executed by its helpers in blocks of
\* their own
EditStatements(c) ==
    LET id == c.id
        tmpl_basic == template[id]
        fcp_from_input == FcpFromInput(expand_fcp_list(c.fcp_devices.val))
        fcp_in_db == [m \in {x.fcp_id : x \in MappingOf(id)} |->
                        (CHOOSE x \in MappingOf(id) : x.fcp_id = m).path]
        add_set == IdSeq(DOMAIN fcp_from_input \ DOMAIN fcp_in_db)
        inter_set == IdSeq({d \in DOMAIN fcp_from_input \cap DOMAIN fcp_in_db :
                              fcp_from_input[d] # fcp_in_db[d]})
        del_set == IdSeq(DOMAIN fcp_in_db \ DOMAIN fcp_from_input)
        sps == IF c.default_sp_list.given
               THEN SeqOf(c.default_sp_list.val) ELSE <<>>
        row == [name |-> IF c.name.given THEN c.name.val
                         ELSE tmpl_basic.name,
                description |-> IF c.description.given
                                THEN c.description.val
                                ELSE tmpl_basic.description,
                is_default |-> IF c.host_default.given
                               THEN (IF c.host_default.val THEN 1 ELSE 0)
                               ELSE tmpl_basic.is_default,
                min_fcp_paths_count |->
                    IF c.min_fcp_paths_count.given
                    THEN c.min_fcp_paths_count.val
                    ELSE tmpl_basic.min_fcp_paths_count]
    IN  (IF c.fcp_devices.given
         THEN [k \in 1..Len(del_set) |->
                  Stmt("delete_mapping", id, del_set[k], 0, NoRow, TRUE)]
              \o [k \in 1..Len(add_set) |->
                     Stmt("insert_mapping", id, add_set[k],
                          fcp_from_input[add_set[k]], NoRow, TRUE)]
              \o [k \in 1..Len(inter_set) |->
                     Stmt("update_path", id, inter_set[k],
                          fcp_from_input[inter_set[k]], NoRow, TRUE)]
         ELSE <<>>)
        \o (IF c.name.given \/ c.description.given \/ c.host_default.given
               \/ c.min_fcp_paths_count.given
            THEN (IF c.host_default.given /\ c.host_default.val
                  THEN <<Stmt("clear_defaults", "", "", 0, NoRow, TRUE)>>
                  ELSE <<>>)
                 \o <<Stmt("update_template", id, "", 0, row, TRUE)>>
            ELSE <<>>)
        \o (IF c.default_sp_list.given
            THEN <<Stmt("delete_sp_mapping", id, "", 0, NoRow, TRUE)>>
                 \o [k \in 1..Len(sps) |->
                        Stmt("delete_sp_name", id, sps[k], 0, NoRow, TRUE)]
                 \o [k \in 1..Len(sps) |->
                        Stmt("insert_sp", id, sps[k], 0, NoRow, TRUE)]
            ELSE <<>>)

\* the outcome of the queries a call makes before its first DML statement:
\* the SDK exception they raise, or ""
CheckOf(c) ==
    LET r == CASE c.op = "create_fcp_template" ->
                    create_fcp_template(c.id, c.name.val, c.description.val,
                        expand_fcp_list(c.fcp_devices.val),
                        c.host_default.val, c.default_sp_list.val,
                        c.min_fcp_paths_count.val)
               [] c.op = "edit_fcp_template" ->
                    edit_fcp_template(c.id, c.name, c.description,
                        c.fcp_devices, c.host_default, c.default_sp_list,
                        c.min_fcp_paths_count)
               [] c.op = "delete_fcp_template" ->
                    delete_fcp_template(c.id)
    IN  IF r.ret.exc = "SDKGuestOperationError" THEN "" ELSE r.ret.exc

StatementsOf(c) ==
    CASE c.op = "create_fcp_template" -> CreateStatements(c)
      [] c.op = "edit_fcp_template" -> EditStatements(c)
      [] c.op = "delete_fcp_template" -> DeleteStatements(c)

-----------------------------------------------------------------------------
(* Specification SpecTxn: two threads call the Template Manager; a call    *)
(* waits for _DBLOCK_FCP, runs its queries in a nested block and its DML   *)
(* statement by statement, any of which may fail, and leaves its block by  *)
(* COMMIT or by ROLLBACK                                                   *)

\* fcp_devices '1a00;1a00': the second path repeats the device of the first
SamePaths == <<{"1a00"}, {"1a00"}>>

TxnCalls ==
    {Call("create_fcp_template", "T1", Some("tmpl"), Some(""),
          Some(TwoPaths), Some(TRUE), Some({"SP1"}), Some(0)),
     Call("create_fcp_template", "T2", Some("tmpl"), Some(""),
          Some(SamePaths), Some(TRUE), Some({}), Some(0)),
     Call("create_fcp_template", "T2", Some("tmpl"), Some(""),
          Some(TwoPaths), Some(TRUE), Some({"SP1"}), Some(0)),
     Call("edit_fcp_template", "T1", None, None,
          Some(<<{"1a01"}, {"1b00"}>>), Some(TRUE), Some({"SP2"}), None),
     Call("edit_fcp_template", "T2", None, None, None, Some(FALSE), None,
          None),
     Call("delete_fcp_template", "T1", None, None, None, None, None, None),
     Call("delete_fcp_template", "T2", None, None, None, None, None, None)}

InitTxn == InitEdit

\* the thread has acquired _DBLOCK_FCP and not yet released it
Inside(t) == pc[t] \notin {"idle", "waiting"}

\* thread t calls the Template Manager and arrives at _DBLOCK_FCP.acquire()
TxnCall(t) ==
    /\ pc[t] = "idle"
    /\ \E c \in TxnCalls : txn' = [txn EXCEPT !.call[t] = c]
    /\ pc' = [pc EXCEPT ![t] = "waiting"]
    /\ UNCHANGED <<tables, ret, sel, lock_owner, lock_count, in_transaction,
                   skip_commit, picked, handed, request, saved, trip>>

\* with get_fcp_conn() of the call: acquire and BEGIN
TxnAcquire(t) ==
    /\ pc[t] = "waiting"
    /\ EnterFcpConn(t)
    /\ pc' = [pc EXCEPT ![t] = "check"]
    /\ UNCHANGED <<tables, ret, sel, picked, handed, request, txn, trip>>

\* the call runs a query helper, which enters a block of its own
TxnQuery(t) ==
    /\ pc[t] = "check"
    /\ EnterFcpConn(t)
    /\ pc' = [pc EXCEPT ![t] = "query"]
    /\ UNCHANGED <<tables, ret, sel, picked, handed, request, txn, trip>>

\* the helper leaves its block; the call raises the SDK exception its
\* queries ask for, or prepares its DML
TxnQueryDone(t) ==
    /\ pc[t] = "query"
    /\ ExitFcpConn(t)
    /\ LET c == txn.call[t]
       IN  IF CheckOf(c) # ""
           THEN /\ pc' = [pc EXCEPT ![t] = "raised_sdk"]
                /\ txn' = [txn EXCEPT !.exc[t] = CheckOf(c)]
           ELSE /\ pc' = [pc EXCEPT ![t] = "run"]
                /\ txn' = [txn EXCEPT !.todo[t] = StatementsOf(c)]
    /\ UNCHANGED <<tables, ret, sel, picked, handed, request, trip>>

\* the helper of edit_fcp_template that executes a nested statement; every
\* call of a helper is a get_fcp_conn block
HelperOf(s) ==
    CASE s.kind = "delete_mapping" -> "bulk_delete_fcp_device_from_fcp_template"
      [] s.kind = "insert_mapping" -> "bulk_insert_fcp_device_into_fcp_template"
      [] s.kind = "update_path" -> "update_path_of_fcp_device"
      [] s.kind \in {"clear_defaults", "update_template"} ->
            "update_basic_info_of_fcp_template"
      [] OTHER -> "bulk_set_sp_default_by_fcp_template"

\* the next statement is one of the block the thread is in
InBlock(t) ==
    /\ txn.todo[t] # <<>>
    /\ \/ pc[t] = "run" /\ ~ Head(txn.todo[t]).nested
       \/ /\ pc[t] = "helper"
          /\ Head(txn.todo[t]).nested
          /\ HelperOf(Head(txn.todo[t])) = txn.helper[t]

\* the call calls the helper of its next statement: with get_fcp_conn()
\* inside the block of the call
TxnHelperEnter(t) ==
    /\ pc[t] = "run"
    /\ txn.todo[t] # <<>>
    /\ Head(txn.todo[t]).nested
    /\ EnterFcpConn(t)
    /\ pc' = [pc EXCEPT ![t] = "helper"]
    /\ txn' = [txn EXCEPT !.helper[t] = HelperOf(Head(txn.todo[t]))]
    /\ UNCHANGED <<tables, ret, sel, picked, handed, request, trip>>

\* the next statement of the call is executed; update_path_of_fcp_device
\* executes one statement
TxnStatement(t) ==
    /\ InBlock(t)
    /\ ~ Refused(Head(txn.todo[t]), TmplTables)
    /\ LET T == Apply(Head(txn.todo[t]), TmplTables)
       IN  /\ template' = T.template
           /\ template_fcp_mapping' = T.template_fcp_mapping
           /\ template_sp_mapping' = T.template_sp_mapping
    /\ txn' = [txn EXCEPT !.todo[t] = Tail(@), !.ran[t] = @ + 1,
                          !.helper[t] =
                              IF @ = "update_path_of_fcp_device" THEN ""
                              ELSE @]
    /\ UNCHANGED <<fcp, ret, sel, lock_owner, lock_count, in_transaction,
                   skip_commit, pc, picked, handed, request, saved, trip>>

\* the next statement fails, refused by a primary key or by the store
\* (sqlite3.Error)
TxnStatementFails(t) ==
    /\ InBlock(t)
    /\ pc' = [pc EXCEPT ![t] = IF pc[t] = "helper" THEN "helper_raised"
                               ELSE "raised_other"]
    /\ txn' = [txn EXCEPT !.exc[t] = "sqlite3.Error"]
    /\ UNCHANGED <<tables, ret, sel, lock_owner, lock_count, in_transaction,
                   skip_commit, picked, handed, request, saved, trip>>

\* the block of the helper ends without an exception
TxnHelperExit(t) ==
    /\ pc[t] = "helper"
    /\ ~ InBlock(t)
    /\ ExitFcpConn(t)
    /\ pc' = [pc EXCEPT ![t] = "run"]
    /\ txn' = [txn EXCEPT !.helper[t] = ""]
    /\ UNCHANGED <<tables, ret, sel, picked, handed, request, trip>>

\* the error reaches the handlers of the helper's block, which replace it
\* by SDKGuestOperationError and raise that into the block of the call
TxnHelperRaise(t) ==
    /\ pc[t] = "helper_raised"
    /\ RollbackFcpConn(t, FALSE)
    /\ Release(t)
    /\ pc' = [pc EXCEPT ![t] = "raised_sdk"]
    /\ txn' = [txn EXCEPT !.exc[t] = "SDKGuestOperationError",
                          !.helper[t] = ""]
    /\ UNCHANGED <<ret, sel, picked, handed, request, trip>>

\* the block of the call ends without an exception
TxnCommit(t) ==
    /\ pc[t] = "run"
    /\ txn.todo[t] = <<>>
    /\ ExitFcpConn(t)
    /\ ret' = [op |-> txn.call[t].op, fcp |-> txn.call[t].id, exc |-> "",
               val |-> 0]
    /\ pc' = [pc EXCEPT ![t] = "idle"]
    /\ txn' = [txn EXCEPT !.call[t] = NoCall, !.ran[t] = 0]
    /\ UNCHANGED <<tables, sel, picked, handed, request, trip>>

\* the exception of the call reaches the handlers of its block
TxnRollback(t) ==
    /\ pc[t] \in {"raised_sdk", "raised_other"}
    /\ RollbackFcpConn(t, pc[t] = "raised_sdk")
    /\ pc' = [pc EXCEPT ![t] = "rolled_back"]
    /\ UNCHANGED <<ret, sel, lock_owner, lock_count, skip_commit, picked,
                   handed, request, txn, trip>>

\* the handler raises and the lock is released
TxnRaise(t) ==
    /\ pc[t] = "rolled_back"
    /\ RaiseFcpConn(t, txn.exc[t] # "sqlite3.Error",
                    [op |-> txn.call[t].op, fcp |-> txn.call[t].id,
                     exc |-> txn.exc[t], val |-> 0])
    /\ pc' = [pc EXCEPT ![t] = "idle"]
    /\ txn' = [txn EXCEPT !.call[t] = NoCall, !.todo[t] = <<>>,
                          !.ran[t] = 0, !.exc[t] = "", !.helper[t] = ""]
    /\ UNCHANGED <<tables, sel, in_transaction, picked, handed, request,
                   saved, trip>>

\* the steps of a thread that holds the lock
TxnInside(t) ==
    \/ TxnQuery(t)
    \/ TxnQueryDone(t)
    \/ TxnHelperEnter(t)
    \/ TxnStatement(t)
    \/ TxnStatementFails(t)
    \/ TxnHelperExit(t)
    \/ TxnHelperRaise(t)
    \/ TxnCommit(t)
    \/ TxnRollback(t)
    \/ TxnRaise(t)

NextTxn ==
    \E t \in Threads :
        \/ TxnCall(t)
        \/ TxnAcquire(t)
        \/ TxnInside(t)

SpecTxn == InitTxn /\ [][NextTxn]_vars

\* a thread inside a block takes its next step, and a thread waiting for
\* the lock gets it if the lock is free again and again
SpecTxnFair ==
    /\ SpecTxn
    /\ \A t \in Threads : WF_vars(TxnInside(t)) /\ SF_vars(TxnAcquire(t))

-----------------------------------------------------------------------------
(* Claims on get_fcp_conn, checked under SpecTxnFair and SpecTxn           *)

NobodyInside == \A t \in Threads : ~ Inside(t)

C23_FailedCallRolledBack ==
    /\ [](/\ NobodyInside => ~ in_transaction /\ saved = NoSaved
          /\ \A t \in Threads :
                pc[t] = "rolled_back" => ~ in_transaction /\ saved = NoSaved)
    /\ [][\A t \in Threads :
            /\ (TxnRollback(t) /\ txn.ran[t] >= 1) =>
                  /\ saved # NoSaved
                  /\ fcp' = saved.fcp
                  /\ template' = saved.template
                  /\ template_fcp_mapping' = saved.template_fcp_mapping
                  /\ template_sp_mapping' = saved.template_sp_mapping
                  /\ txn.call[t].op = "create_fcp_template" =>
                        /\ txn.call[t].id \notin DOMAIN template'
                        /\ \A m \in template_fcp_mapping' :
                              m.tmpl_id # txn.call[t].id
            /\ (TxnRaise(t) /\ txn.ran[t] >= 1) =>
                  /\ ret'.exc = "SDKGuestOperationError"
                  /\ tables' = tables]_vars

\* create_fcp_template of T2 with host_default = true and fcp_devices
\* '1a00;1a00' has failed on its fourth statement, the second INSERT of
\* device 1a00, and the handler has run: T1 is the host default as before
\* the call and no row of T2 is stored
C23_Witness ==
    \E t \in Threads :
        /\ pc[t] = "rolled_back"
        /\ txn.call[t].op = "create_fcp_template"
        /\ txn.call[t].id = "T2"
        /\ txn.call[t].fcp_devices = Some(SamePaths)
        /\ txn.exc[t] = "sqlite3.Error"
        /\ txn.ran[t] = 3
        /\ Head(txn.todo[t]).kind = "insert_mapping"
        /\ Head(txn.todo[t]).key = "1a00"
        /\ ~ in_transaction
        /\ "T1" \in DOMAIN template
        /\ template["T1"].is_default = 1
        /\ "T2" \notin DOMAIN template
        /\ \A m \in template_fcp_mapping : m.tmpl_id # "T2"

-----------------------------------------------------------------------------
(* Specification SpecRound: two guests, each taking an available device of *)
(* template T1 through reserve_fcps, n increase_connections_by_assigner,   *)
(* n decrease_connections and unreserve_fcps, with no synchronization      *)

\* the rows a device has when the guests start
RoundRows(id) ==
    IF id = "1a00" THEN {FreeOnA, Active, Row("USERB", 0, 0, WWPN, WWPN, "aaaa", "free", "")}
    ELSE {FreeOnB, NoPhy, Row("USERA", 0, 0, WWPN, WWPN, "BBBB", "free", "")}

\* a snapshot with free capacity on both PCHIDs
RoundInfo == [k \in InfoKeys |-> [allocated |-> 0, max |-> MaxCap]]

InitRound ==
    /\ fcp \in {t \in [DevIds -> UNION {RoundRows(id) : id \in DevIds}] :
                   \A id \in DevIds : t[id] \in RoundRows(id)}
    /\ template = [t \in {"T1"} |-> TmplRow("tmpl", 0, 1)]
    /\ template_fcp_mapping =
          MappingRows("T1", [d \in DevIds |-> IF d = "1a00" THEN 0 ELSE 1])
    /\ template_sp_mapping = EmptyTable
    /\ InitIdle

\* a step of the guest of thread t on the device it holds
RoundCall(t, r, at, next) ==
    /\ fcp' = r.fcp
    /\ ret' = r.ret
    /\ pc' = [pc EXCEPT ![t] = at]
    /\ trip' = [trip EXCEPT ![t] = next]
    /\ UNCHANGED <<template, template_fcp_mapping, template_sp_mapping, sel,
                   lock_owner, lock_count, in_transaction, skip_commit,
                   picked, request, txn, saved>>

\* reserve_fcps on a device that selection returns for T1
RoundReserve(t) ==
    /\ pc[t] = "idle"
    /\ \E out \in get_fcp_devices("T1", RoundInfo), n \in 0..MaxConn :
        \E item \in out.fcp_list :
          /\ handed' = [handed EXCEPT ![t] = {item.fcp_id}]
          /\ RoundCall(t, reserve_fcps({item.fcp_id}, AssignerOf(t), "T1"),
                       "attach", [n |-> n, up |-> 0, down |-> 0])

RoundIncrease(t) ==
    /\ pc[t] = "attach"
    /\ trip[t].up < trip[t].n
    /\ \E id \in handed[t] :
          RoundCall(t, increase_connections_by_assigner(id, AssignerOf(t)),
                    "attach", [trip[t] EXCEPT !.up = @ + 1])
    /\ UNCHANGED handed

RoundDecrease(t) ==
    /\ pc[t] = "attach"
    /\ trip[t].up = trip[t].n
    /\ trip[t].down < trip[t].n
    /\ \E id \in handed[t] :
          RoundCall(t, decrease_connections(id), "attach",
                    [trip[t] EXCEPT !.down = @ + 1])
    /\ UNCHANGED handed

RoundUnreserve(t) ==
    /\ pc[t] = "attach"
    /\ trip[t].up = trip[t].n
    /\ trip[t].down = trip[t].n
    /\ RoundCall(t, unreserve_fcps(handed[t]), "detached", trip[t])
    /\ UNCHANGED handed

\* the guest is ready for its next volume
RoundDone(t) ==
    /\ pc[t] = "detached"
    /\ pc' = [pc EXCEPT ![t] = "idle"]
    /\ handed' = [handed EXCEPT ![t] = {}]
    /\ trip' = [trip EXCEPT ![t] = NoTrip[t]]
    /\ UNCHANGED <<tables, ret, sel, lock_owner, lock_count, in_transaction,
                   skip_commit, picked, request, txn, saved>>

NextRound ==
    \E t \in Threads :
        \/ RoundReserve(t)
        \/ RoundIncrease(t)
        \/ RoundDecrease(t)
        \/ RoundUnreserve(t)
        \/ RoundDone(t)

SpecRound == InitRound /\ [][NextRound]_vars

\* C31: when a guest has taken an available device through reserve_fcps,
\* n increase_connections_by_assigner, n decrease_connections and
\* unreserve_fcps, the device has connections=0, reserved=0 and tmpl_id=''
\* and satisfies what selection asks of a device, whatever the guest that
\* asks: a selection on T1 can return it.
C31_RoundTripFreesDevice ==
    [][\A t \in Threads :
         (pc[t] = "attach" /\ pc'[t] = "detached") =>
            \A id \in handed[t] :
                /\ RowsOf(fcp', id) # {}
                /\ \A k \in RowsOf(fcp', id) :
                      /\ fcp'[k].connections = 0
                      /\ fcp'[k].reserved = 0
                      /\ fcp'[k].tmpl_id = ""
                      /\ Available(fcp'[k])
                /\ \E out \in get_fcp_devices("T1", RoundInfo)' :
                      id \in {item.fcp_id : item \in out.fcp_list}
                /\ \E out \in get_fcp_devices_with_same_index("T1", RoundInfo)' :
                      out.exc = ""]_vars

\* guest USERA has been through the sequence with n = MaxConn on device
\* 1b00, which carries its assigner still, while USERB holds device 1a00
C31_Witness ==
    /\ pc["th1"] = "detached"
    /\ trip["th1"] = [n |-> MaxConn, up |-> MaxConn, down |-> MaxConn]
    /\ handed["th1"] = {"1B00"}
    /\ fcp["1b00"].assigner_id = "USERA"
    /\ ret.op = "unreserve_fcps"
    /\ pc["th2"] = "attach"
    /\ fcp["1a00"].connections = 1

-----------------------------------------------------------------------------
(* Claims on nested get_fcp_conn blocks, checked under SpecTxn             *)

\* thread t is in a block entered inside the block of its call
InNested(t) == pc[t] \in {"query", "helper", "helper_raised"}

\* C32: a get_fcp_conn block entered by a thread whose call has a
\* transaction open does not wait for the lock and leaves the transaction
\* and what ROLLBACK restores as they are when it is entered (no BEGIN),
\* when it ends (no COMMIT) and when an exception leaves it (no ROLLBACK);
\* that exception reaches the block of the call; what the nested blocks
\* wrote stays when the block of the call commits and is undone when it
\* rolls back.
C32_NestedBlockUsesOuterTransaction ==
    /\ [](\A t \in Threads :
            /\ pc[t] \in {"check", "run"} => CanAcquire(t)
            /\ InNested(t) =>
                  /\ in_transaction
                  /\ saved # NoSaved
                  /\ lock_owner = t
                  /\ lock_count = 2
                  /\ skip_commit[t] = <<FALSE, TRUE>>)
    /\ [][\A t \in Threads :
            /\ (TxnQuery(t) \/ TxnHelperEnter(t) \/ TxnQueryDone(t)
                  \/ TxnHelperExit(t) \/ TxnHelperRaise(t)) =>
                  /\ in_transaction /\ in_transaction'
                  /\ saved' = saved
                  /\ tables' = tables
                  /\ lock_owner' = t
            /\ TxnHelperRaise(t) =>
                  /\ pc'[t] = "raised_sdk"
                  /\ txn'.exc[t] = "SDKGuestOperationError"
            /\ (TxnCommit(t) /\ txn.call[t].op = "edit_fcp_template") =>
                  /\ tables' = tables
                  /\ ~ in_transaction'
                  /\ saved' = NoSaved
            /\ (TxnRollback(t) /\ txn.call[t].op = "edit_fcp_template") =>
                  /\ fcp' = saved.fcp
                  /\ template' = saved.template
                  /\ template_fcp_mapping' = saved.template_fcp_mapping
                  /\ template_sp_mapping' = saved.template_sp_mapping
                  /\ ~ in_transaction']_vars

\* edit_fcp_template has executed statements in blocks of its helpers, a
\* later statement has failed inside such a block, the error has reached
\* the block of the call as SDKGuestOperationError and its handler has run
C32_Witness ==
    \E t \in Threads :
        /\ pc[t] = "rolled_back"
        /\ txn.call[t].op = "edit_fcp_template"
        /\ txn.ran[t] >= 2
        /\ txn.exc[t] = "SDKGuestOperationError"
        /\ Head(txn.todo[t]).nested
        /\ lock_count = 1
        /\ ~ in_transaction

-----------------------------------------------------------------------------
(* Specification SpecAgain: selection calls one after the other, with any  *)
(* capacity snapshots, on the stores of SpecRound                          *)

\* snapshots naming both PCHIDs, with and without free capacity
AgainInfos == [InfoKeys -> [allocated : {0, MaxAllocated}, max : {0, MaxCap}]]

AgainGetFcpDevices ==
    \E t \in TmplIds, info \in AgainInfos :
        Selection(get_fcp_devices(t, info))

AgainGetFcpDevicesWithSameIndex ==
    \E t \in TmplIds, info \in AgainInfos :
        Selection(get_fcp_devices_with_same_index(t, info))

NextAgain ==
    \/ AgainGetFcpDevices
    \/ AgainGetFcpDevicesWithSameIndex

SpecAgain == InitRound /\ [][NextAgain]_vars

-----------------------------------------------------------------------------
(* Specification SpecStore: create_fcp_template, edit_fcp_template and     *)
(* delete_fcp_template on templates T1 and T2, with any provider lists     *)

StoreCalls ==
    {Call("create_fcp_template", id, Some("tmpl"), Some(""), Some(d),
          Some(FALSE), Some(sp), Some(0)) :
        id \in TmplIds, d \in {TwoPaths, <<{"1a01"}>>}, sp \in SUBSET SpNames}
    \cup {Call("edit_fcp_template", id, None, None, d, None, sp, None) :
             id \in TmplIds, d \in Optional({<<>>, <<{"1a01"}, {"1b00"}>>}),
             sp \in Optional(SUBSET SpNames)}
    \cup {Call("delete_fcp_template", id, None, None, None, None, None,
               None) : id \in TmplIds}

StoreRequest == RequestCall(StoreCalls)

NextStore ==
    \/ StoreRequest
    \/ HandleCall
    \/ ReturnCall

SpecStore == InitEdit /\ [][NextStore]_vars

\* C34: no two rows of template_sp_mapping have the same provider name,
\* and a create_fcp_template or edit_fcp_template of template T that is
\* given the provider list L and succeeds leaves every provider of L
\* mapped to T, also one that was mapped to another template; after the
\* edit the providers mapped to T are exactly those of L.
C34_ProvidersFollowTheList ==
    /\ [](\A n1, n2 \in DOMAIN template_sp_mapping :
            EqNoCase(n1, n2) => n1 = n2)
    /\ [][(/\ Handled
           /\ request.op \in {"create_fcp_template", "edit_fcp_template"}
           /\ request.default_sp_list.given
           /\ ret'.exc = "")
          => LET id == request.id
                 L == request.default_sp_list.val
             IN  /\ \A n \in L :
                       /\ n \in DOMAIN template_sp_mapping'
                       /\ template_sp_mapping'[n] = id
                 /\ request.op = "edit_fcp_template" =>
                       ProvidersOf(template_sp_mapping', id) = L]_vars

\* edit_fcp_template of T1 with the list ['SP2'] has succeeded: SP2 is
\* mapped to T1 and to nothing else, SP1 to T2
C34_Witness ==
    /\ ret.op = "edit_fcp_template"
    /\ ret.exc = ""
    /\ request.id = "T1"
    /\ request.default_sp_list = Some({"SP2"})
    /\ template_sp_mapping = [n \in SpNames |->
                                 IF n = "SP2" THEN "T1" ELSE "T2"]

\* C39: after any sequence of create_fcp_template, edit_fcp_template and
\* delete_fcp_template every row of template_fcp_mapping and of
\* template_sp_mapping carries the id of a row of table template.
C39_NoOrphanMappingRows ==
    /\ \A m \in template_fcp_mapping : fcp_template_exist_in_db(m.tmpl_id)
    /\ \A n \in DOMAIN template_sp_mapping :
          fcp_template_exist_in_db(template_sp_mapping[n])

\* delete_fcp_template of T1 has succeeded while T2 has devices and a
\* provider
C39_Witness ==
    /\ ret.op = "delete_fcp_template"
    /\ ret.fcp = "T1"
    /\ ret.exc = ""
    /\ ~ fcp_template_exist_in_db("T1")
    /\ get_path_count("T2") = 2
    /\ ProvidersOf(template_sp_mapping, "T2") = {"SP1"}

-----------------------------------------------------------------------------
\* the usage fields of a row of table fcp
Usage(row) ==
    <<row.assigner_id, row.reserved, row.connections, row.tmpl_id>>

\* C36: after any sequence of reserve_fcps with a non-empty template id,
\* unreserve_fcps, increase_connections_by_assigner, decrease_connections,
\* reset_fcps_of_assigner and synchronization, starting from freshly
\* inserted devices, a device has a non-empty tmpl_id exactly when its
\* reserved flag is 1.
C36_TmplIdIffReserved ==
    \A k \in DOMAIN fcp : (fcp[k].tmpl_id # "") <=> (fcp[k].reserved = 1)

\* one device is reserved from T1 and connected, the other one has been
\* unreserved while connected, and a synchronization update has just run
C36_Witness ==
    /\ ret.op = "bulk_update_state"
    /\ DOMAIN fcp = DevIds
    /\ Usage(fcp["1a00"]) = <<"USERA", 1, MaxConn, "T1">>
    /\ Usage(fcp["1b00"]) = <<"USERB", 0, 1, "">>
    /\ fcp["1b00"].state = "notfound"

-----------------------------------------------------------------------------
(* Specification SpecSync: the mutators of table fcp, update_usage_of_fcp  *)
(* included                                                                *)

UpdateUsageOfFcp ==
    \E a \in Assigners, r \in {0, 1}, c \in {0, MaxConn}, tm \in {"", "T1"} :
        FcpCall(update_usage_of_fcp("1A00", a, r, c, tm))

NextSync ==
    \/ UnreserveFcps
    \/ ReserveFcps
    \/ BulkInsert
    \/ BulkDelete
    \/ BulkUpdateInfo
    \/ BulkUpdateState
    \/ ResetFcpsOfAssigner
    \/ IncreaseConnections
    \/ DecreaseConnections
    \/ UpdateUsageOfFcp

SpecSync == Init /\ [][NextSync]_vars

UsageWriters ==
    {"reserve_fcps", "unreserve_fcps", "increase_connections_by_assigner",
     "decrease_connections", "reset_fcps_of_assigner", "update_usage_of_fcp"}

\* C35: bulk_update_zvm_fcp_info_in_fcp_table and
\* bulk_update_state_in_fcp_table change reserved, connections, assigner_id
\* and tmpl_id of no device, bulk insertion creates devices with reserved=0,
\* connections=0, assigner_id='' and tmpl_id='', and the usage fields of a
\* device change only in reserve, unreserve, increase, decrease, reset and
\* update_usage_of_fcp.
C35_SyncKeepsUsage ==
    [][/\ \A k \in DOMAIN fcp \cap DOMAIN fcp' :
             Usage(fcp'[k]) # Usage(fcp[k]) => ret'.op \in UsageWriters
       /\ \A k \in DOMAIN fcp' \ DOMAIN fcp :
             /\ ret'.op = "bulk_insert"
             /\ Usage(fcp'[k]) = <<"", 0, 0, "">>]_vars

\* bulk_update_zvm_fcp_info_in_fcp_table has rewritten the facts of a
\* device that is reserved and connected
C35_Witness ==
    /\ ret.op = "bulk_update_info"
    /\ "1a00" \in DOMAIN fcp
    /\ Usage(fcp["1a00"]) = <<"USERB", 1, MaxConn, "T1">>
    /\ fcp["1a00"].pchid = "BBBB"

-----------------------------------------------------------------------------
(* Specification SpecDetach: the guests of SpecRound, which may call       *)
(* unreserve_fcps before their decreases, while template T1 is deleted     *)

\* unreserve_fcps on the device the guest holds, whatever its connections
DetachUnreserve(t) ==
    /\ pc[t] = "attach"
    /\ RoundCall(t, unreserve_fcps(handed[t]), "unreserved", trip[t])
    /\ UNCHANGED handed

\* a decrease after the unreserve
DetachDecrease(t) ==
    /\ pc[t] = "unreserved"
    /\ trip[t].down < trip[t].up
    /\ \E id \in handed[t] :
          RoundCall(t, decrease_connections(id), "unreserved",
                    [trip[t] EXCEPT !.down = @ + 1])
    /\ UNCHANGED handed

\* the guest has no connection left on the device and lets it go
DetachDone(t) ==
    /\ pc[t] = "unreserved"
    /\ trip[t].down = trip[t].up
    /\ pc' = [pc EXCEPT ![t] = "idle"]
    /\ handed' = [handed EXCEPT ![t] = {}]
    /\ trip' = [trip EXCEPT ![t] = NoTrip[t]]
    /\ UNCHANGED <<tables, ret, sel, lock_owner, lock_count, in_transaction,
                   skip_commit, picked, request, txn, saved>>

DetachDelete == TmplCall(delete_fcp_template("T1"))

NextDetach ==
    \/ \E t \in Threads :
          \/ RoundReserve(t)
          \/ RoundIncrease(t)
          \/ RoundDecrease(t)
          \/ DetachUnreserve(t)
          \/ DetachDecrease(t)
          \/ DetachDone(t)
    \/ DetachDelete

SpecDetach == InitRound /\ [][NextDetach]_vars

\* the devices a guest took from T1 and on which it has made more
\* increases than decreases
AttachedThroughT1 ==
    UNION {IF trip[t].up > trip[t].down THEN handed[t] ELSE {} :
              t \in Threads}

\* C37 as stated: delete_fcp_template(T) never succeeds while a device that
\* was reserved from T still has connections > 0 from that allocation; in
\* every state in which T1 has just been deleted no device attached through
\* T1 remains connected.
C37_Original ==
    (/\ ret.op = "delete_fcp_template"
     /\ ret.fcp = "T1"
     /\ ret.exc = "")
    => \A id \in AttachedThroughT1 :
          \A k \in RowsOf(fcp, id) : fcp[k].connections = 0

-----------------------------------------------------------------------------
\* some device the template of the call maps has no row in table fcp
MappedWithoutRow ==
    \E m \in MappingOf(sel.tmpl) : RowsOf(fcp, m.fcp_id) = {}

\* C38 as stated: get_fcp_devices_with_same_index keeps its guarantees also
\* when a device mapped in the template has no row in table fcp: it ends
\* without an indexing error, and a non-empty result holds one device per
\* path of the template, each mapped to the path it is reported on, all at
\* the same index of their paths.
C38_Original ==
    (sel.op = "get_fcp_devices_with_same_index" /\ MappedWithoutRow) =>
        /\ sel.exc # "IndexError"
        /\ sel.fcp_list # {} =>
              LET paths == {m.path : m \in MappingOf(sel.tmpl)}
              IN  /\ Cardinality(sel.fcp_list) = Cardinality(paths)
                  /\ \A p \in paths :
                        \E item \in sel.fcp_list : item.path = p
                  /\ \A item \in sel.fcp_list :
                        \E m \in MappingOf(sel.tmpl) :
                            /\ EqNoCase(m.fcp_id, item.fcp_id)
                            /\ m.path = item.path
                  /\ \E i \in 0..Len(FcpIdSeq) :
                        \A item \in sel.fcp_list :
                            PositionInPath(item.fcp_id, item.path) = i

=============================================================================
